---- MODULE Spec2Model ----
(***************************************************************************)
(* CDQuizBot: the test session engine of src/bot.py over the tables of     *)
(* src/database.py.                                                        *)
(*                                                                         *)
(* Scheduling.  setup_application builds the Application without           *)
(* concurrent_updates and registers every handler with the default         *)
(* block=True, so python-telegram-bot processes one update at a time, each *)
(* handler running to completion (its awaits and sleeps included) before   *)
(* the next update is taken.  Every handler is therefore one atomic action.*)
(*                                                                         *)
(* Inputs.  A callback query carries arbitrary data chosen by the client   *)
(* (the Bot API does not tie it to a button that was sent), so handler     *)
(* arguments are drawn from small sets of ids, existing or not.            *)
(*                                                                         *)
(* Time.  time.time() and datetime.now() are readings of the environment:  *)
(* a duration is an input of the step that measures it, and a stored       *)
(* timestamp is the single value DATETIME.                                 *)
(***************************************************************************)
EXTENDS Integers, Sequences, FiniteSets, TLC

\* ---------------------------------------------------------------- bounds
MaxAttempts == 3
MaxPayments == 1
MaxAnswers == 3
MaxUpdates == 3
MaxDuration == 1
MaxQuestions == 401

\* ------------------------------------------------------------- constants
\* Python None / SQL NULL of a nullable column
NULL == 0
\* a value of datetime.now(timezone.utc)
DATETIME == 1

Users == {1, 2}
ADMIN_IDS == {2}
PAYMENT_AMOUNTS == {10000, 20000, 50000}
\* test ids a client can send: the two persisted tests and one that is absent
TestIds == {1, 2, 3}
Durations == 0..MaxDuration
\* ConversationHandler.END, and the states of the conversation that creates
\* a test
END == -1
WAITING_FOR_TEST_NAME == 0
WAITING_FOR_TEST_FILE == 1

VARIABLES
    tests,                  \* rows of table tests: set of test ids
    questions,              \* rows of table questions
    answers,                \* rows of table answers
    users,                  \* table users: telegram_id -> balance
    test_access,            \* rows of table test_access, in insertion order
    test_results,           \* rows of table test_results, id = position
    user_answers,           \* rows of table user_answers
    payments,               \* table payments: id -> row
    test_start,             \* ids k with user_data['test_start_k'] present
    test_current_question,  \* user_data['test_current_question_k'], k -> index
    update_count,           \* number of updates the bot has processed
    in_progress,            \* handler calls that have read and not yet committed
    conversation,           \* state of the test-creation conversation, per user
    live,                   \* history: attempts started, neither finished nor restarted
    last                    \* history: the handler that ran last and what it showed

vars == <<tests, questions, answers, users, test_access, test_results,
          user_answers, payments, test_start, test_current_question,
          update_count, in_progress, conversation, live, last>>

\* --------------------------------------------------------------- helpers
\* A text is the sequence of its characters.
\* str.strip() for texts whose only whitespace is the space
RECURSIVE lstrip(_)
lstrip(text) ==
    IF text # <<>> /\ Head(text) = " " THEN lstrip(Tail(text)) ELSE text
RECURSIVE rstrip(_)
rstrip(text) ==
    IF text # <<>> /\ text[Len(text)] = " "
    THEN rstrip(SubSeq(text, 1, Len(text) - 1)) ELSE text
strip(text) == rstrip(lstrip(text))

SetMax(S) == CHOOSE x \in S : \A y \in S : y <= x
SetMin(S) == CHOOSE x \in S : \A y \in S : x <= y
Ids(seq) == 1..Len(seq)

\* the persisted quizzes: test 1 has questions 1, 2; test 2 has question 3;
\* every question has one correct and one wrong answer
InitTests == {1, 2}
InitQuestions ==
    { [id |-> 1, test_id |-> 1, question_number |-> 1],
      [id |-> 2, test_id |-> 1, question_number |-> 2],
      [id |-> 3, test_id |-> 2, question_number |-> 1] }
InitAnswers ==
    { [id |-> 1, question_id |-> 1, is_correct |-> TRUE, answer_letter |-> "A"],
      [id |-> 2, question_id |-> 1, is_correct |-> FALSE, answer_letter |-> "B"],
      [id |-> 3, question_id |-> 2, is_correct |-> FALSE, answer_letter |-> "A"],
      [id |-> 4, question_id |-> 2, is_correct |-> TRUE, answer_letter |-> "B"],
      [id |-> 5, question_id |-> 3, is_correct |-> TRUE, answer_letter |-> "A"],
      [id |-> 6, question_id |-> 3, is_correct |-> FALSE, answer_letter |-> "B"] }
QuestionIds == {1, 2, 3}
\* The (question, answer) pairs a client sends with answer_<tr>_<q>_<a>:
\* buttons of the three questions (an answer of the question, or NULL for
\* skip), answer 4 of question 2 sent for question 1, and answer 7, which
\* does not exist.
AnswerInputs ==
    {<<1, 1>>, <<1, 2>>, <<1, NULL>>, <<2, 3>>, <<2, 4>>, <<3, 5>>, <<3, NULL>>,
     <<1, 4>>, <<2, 7>>}

\* select(Question).where(test_id == t).order_by(question_number): the ids
RECURSIVE OrderByNumber(_)
OrderByNumber(qs) ==
    IF qs = {} THEN <<>>
    ELSE LET m == SetMin({q.question_number : q \in qs})
             q0 == CHOOSE q \in qs : q.question_number = m
                     /\ \A p \in qs : p.question_number = m => q.id <= p.id
         IN <<q0.id>> \o OrderByNumber(qs \ {q0})

all_questions(t) == OrderByNumber({q \in questions : q.test_id = t})

\* select(Answer).where(question_id == q): the ids, in the order of the rows
RECURSIVE OrderById(_)
OrderById(ids) ==
    IF ids = {} THEN <<>>
    ELSE <<SetMin(ids)>> \o OrderById(ids \ {SetMin(ids)})

question_answers(q) == OrderById({x.id : x \in {y \in answers : y.question_id = q}})

\* random.shuffle(shuffled_answers): every order of the question's answers
shuffles(q) ==
    LET ids == {x.id : x \in {y \in answers : y.question_id = q}}
    IN {kb \in [1..Cardinality(ids) -> ids] : \A a \in ids : \E i \in DOMAIN kb : kb[i] = a}

\* letters = ['A', ..., 'H'], and chr(ord('A') + idx) past them
letters == <<"A", "B", "C", "D", "E", "F", "G", "H">>
chr_from_A == <<"A", "B", "C", "D", "E", "F", "G", "H", "I", "J", "K", "L">>

\* the letter given to the answer at position i (the first is 1)
display_letter(i) == IF i <= Len(letters) THEN letters[i] ELSE chr_from_A[i]

\* variant: every button is labelled with the answer_letter stored with its
\* answer
keyboard_stored_letters(shuffled_answers) ==
    [i \in DOMAIN shuffled_answers |->
        [display_letter |-> (CHOOSE x \in answers : x.id = shuffled_answers[i]).answer_letter,
         answer_text_of |-> shuffled_answers[i],
         answer_id |-> shuffled_answers[i]]]

\* the answer buttons of a question message, one for each of
\* shuffled_answers in that order: the letter of its position, the answer
\* whose answer_text it shows and the answer id in its callback data (the
\* skip button, which follows them, is left out)
keyboard(shuffled_answers) ==
    [i \in DOMAIN shuffled_answers |->
        [display_letter |-> display_letter(i),
         answer_text_of |-> shuffled_answers[i],
         answer_id |-> shuffled_answers[i]]]

\* variant: the letters given to the buttons are stored as the answers'
\* answer_letter
answers_after_show_relettered(ans, kb) ==
    {IF \E i \in DOMAIN kb : kb[i].answer_id = x.id
     THEN [x EXCEPT !.answer_letter =
              kb[CHOOSE i \in DOMAIN kb : kb[i].answer_id = x.id].display_letter]
     ELSE x : x \in ans}

\* the rows of table answers after a message with the buttons kb was sent:
\* display_letter is set on the loaded Answer objects, it is no column of
\* the table, and show_question commits nothing
answers_after_show(ans, kb) == ans

\* select(func.count(Question.id)).where(test_id == t)
question_count(t) == Cardinality({q \in questions : q.test_id = t})

\* variant: the hundreds above 300 are rounded down, not up
calculate_test_cost_floor(n) ==
    IF n <= 100 THEN 10000
    ELSE IF n < 200 THEN 10000 + 5000
    ELSE IF n < 300 THEN 10000 + 10000
    ELSE 10000 + 10000 + ((n - 300) \div 100) * 5000

calculate_test_cost(n) ==
    IF n <= 100 THEN 10000
    ELSE IF n < 200 THEN 10000 + 5000
    ELSE IF n < 300 THEN 10000 + 10000
    ELSE 10000 + 10000 + (((n - 300) + 99) \div 100) * 5000

\* get_or_create_user: a missing user row is inserted with balance 0
get_or_create_user(us, u) ==
    IF u \in DOMAIN us THEN us ELSE (u :> 0) @@ us

\* variant: the select of the access row finds nothing
has_access_never(acc, u, t) == FALSE

\* select(TestAccess).where(user_id == u, test_id == t) is not empty
has_access(acc, u, t) ==
    \E i \in Ids(acc) : acc[i].user_id = u /\ acc[i].test_id = t

\* variant: the balance is never found short
balance_sufficient_always(balance, cost) == TRUE

\* user.balance < test_cost is the refusal; this is its negation
balance_sufficient(balance, cost) == ~(balance < cost)

\* The access step shared by both entry points: refuse when there is no
\* grant and the balance is short, otherwise (no grant) pay and insert one.
check_access(us, acc, u, t) ==
    LET cost == calculate_test_cost(question_count(t)) IN
    IF has_access(acc, u, t)
    THEN [ok |-> TRUE, users |-> us, test_access |-> acc, cost |-> cost]
    ELSE IF ~balance_sufficient(us[u], cost)
    THEN [ok |-> FALSE, users |-> us, test_access |-> acc, cost |-> cost]
    ELSE [ok |-> TRUE,
          users |-> [us EXCEPT ![u] = us[u] - cost],
          test_access |-> Append(acc, [user_id |-> u, test_id |-> t]),
          cost |-> cost]

\* The value the INSERT of a TestResult stores in completed_at.  The column
\* has a Python-side default (default=lambda: datetime.now(timezone.utc));
\* the ORM leaves an attribute that is unset, or set to None, out of the
\* INSERT, and the default is then evaluated.  Only a non-None value
\* is stored as given.
inserted_completed_at(given) ==
    IF given = NULL THEN DATETIME ELSE given

\* TestResult(...) as both entry points construct it, then INSERTed
new_test_result(t, u, given_completed_at) ==
    [ test_id |-> t, user_id |-> u,
      correct_answers |-> 0, wrong_answers |-> 0, skipped_answers |-> 0,
      duration_seconds |-> 0,
      best_score |-> 0, best_correct |-> 0, best_wrong |-> 0,
      best_skipped |-> 0, best_duration |-> 0,
      completed_at |-> inserted_completed_at(given_completed_at) ]

\* what the handler that ran last did: the message it sent (kind, and for a
\* question or a result the attempt and the question index), the cost it
\* quoted, and the upsert it made to user_answers: upsert is "new" for an
\* insert and the old category for an update, written the category written.
\* total and better are the leaderboard counts of a result message,
\* keyboard the answer buttons of a question message, pressed the position
\* that the answer recorded had on the keyboard of the message before.
Last(kind, shown_tr, shown_index, cost, upsert, written) ==
    [ kind |-> kind, shown_tr |-> shown_tr, shown_index |-> shown_index,
      cost |-> cost, upsert |-> upsert, written |-> written,
      total |-> NULL, better |-> NULL, keyboard |-> <<>>, pressed |-> NULL ]

\* the message l sent with the answer buttons kb
Shown(l, kb) == [l EXCEPT !.keyboard = kb]

\* the result message of finish_test for attempt tr with the leaderboard
\* counts lb
Result(tr, upsert, written, lb) ==
    [ Last("finished", tr, NULL, NULL, upsert, written)
        EXCEPT !.total = lb.total, !.better = lb.better ]

\* ------------------------------------------------- finish_test, show_question
same_pair_others(trs, id) ==
    {j \in Ids(trs) \ {id} : trs[j].test_id = trs[id].test_id
                             /\ trs[j].user_id = trs[id].user_id}

\* select(func.max(TestResult.best_correct)) over the other rows of the same
\* test and user, `or 0`
previous_best_correct(trs, id) ==
    IF same_pair_others(trs, id) = {} THEN 0
    ELSE SetMax({trs[j].best_correct : j \in same_pair_others(trs, id)})

\* The rows `... best_correct == previous_best_correct
\* .order_by(best_duration).limit(1)` may return: any row of least
\* best_duration (the order among equal keys is not specified); {0} when the
\* query is not made.
previous_best_choices(trs, id) ==
    IF id \notin Ids(trs) \/ previous_best_correct(trs, id) = 0 THEN {0}
    ELSE LET c == {j \in same_pair_others(trs, id) :
                      trs[j].best_correct = previous_best_correct(trs, id)}
             m == SetMin({trs[j].best_duration : j \in c})
         IN {j \in c : trs[j].best_duration = m}

\* new attempt is the new best: more correct answers, or as many in less time
is_new_best(correct, duration, prev_correct, prev_duration) ==
    correct > prev_correct \/ (correct = prev_correct /\ duration < prev_duration)

\* finish_test: the row of attempt id after scoring.  d is the reading
\* time.time() - start_time, pb the row the previous-best query returned.
finish_test(trs, uas, ts, id, d, pb) ==
    LET r == trs[id]
        duration == IF id \in ts THEN d ELSE 0
        actual_skipped == Cardinality({a \in uas : a.test_result_id = id /\ a.is_skipped})
        r1 == [r EXCEPT !.duration_seconds = duration,
                        !.skipped_answers = actual_skipped]
        own == [r1 EXCEPT !.best_correct = r1.correct_answers,
                          !.best_wrong = r1.wrong_answers,
                          !.best_skipped = r1.skipped_answers,
                          !.best_duration = duration,
                          !.best_score = r1.correct_answers]
        pbc == previous_best_correct(trs, id)
        r2 == IF pbc > 0
              THEN IF is_new_best(r1.correct_answers, duration, pbc, trs[pb].best_duration)
                   THEN own
                   ELSE [r1 EXCEPT !.best_correct = trs[pb].best_correct,
                                   !.best_wrong = trs[pb].best_wrong,
                                   !.best_skipped = trs[pb].best_skipped,
                                   !.best_duration = trs[pb].best_duration,
                                   !.best_score = trs[pb].best_score]
              ELSE own
    IN [trs EXCEPT ![id] = [r2 EXCEPT !.completed_at = DATETIME]]

\* finish_test, leaderboard stats of attempt id: the number of test_results
\* rows of its test and the number of them with more correct answers
leaderboard(trs, id) ==
    LET of_test == {j \in Ids(trs) : trs[j].test_id = trs[id].test_id} IN
    [ total |-> Cardinality(of_test),
      better |-> Cardinality({j \in of_test :
                     trs[j].correct_answers > trs[id].correct_answers}) ]

\* position = better_count + 1
position(lb) == lb.better + 1

\* percentage = (total - better) / total * 100, 100 when total is 0, as the
\* result message prints it with {percentage:.0f}: rounded to the nearest
\* whole number, a half to the even one.  (The float quotient rounds as the
\* exact one does for every total below 40.)
percentage(lb) ==
    IF lb.total > 0
    THEN LET n == (lb.total - lb.better) * 100
             q == n \div lb.total
             r == n % lb.total
         IN IF 2 * r < lb.total THEN q
            ELSE IF 2 * r > lb.total THEN q + 1
            ELSE IF q % 2 = 0 THEN q ELSE q + 1
    ELSE 100

\* variant: a question is shown for the index one past the last question
past_last_question_strict(idx, n) == idx > n

\* show_question: question_index >= len(all_questions)
past_last_question(idx, n) == idx >= n

\* variant: every key is removed, not only that of the attempt
pop_all(f, id) == [k \in {} |-> 0]

\* context.user_data.pop(key_id, None)
pop(f, id) == [k \in (DOMAIN f) \ {id} |-> f[k]]

\* variant: the earlier row of the question is never found
existing_answers_none(uas, tr, q) == {}

\* the rows select(UserAnswer).where(test_result_id == tr, question_id == q)
existing_answers(uas, tr, q) ==
    {x \in uas : x.test_result_id = tr /\ x.question_id = q}

\* show_question(test_result_id = id, question_index = idx): past the last
\* question it finishes the attempt, otherwise it sends question idx with
\* its answers shuffled (keyboards: the keyboards the shuffle can give) and
\* stores idx as the attempt's current question.
show_question(trs, uas, ts, cur, id, idx, d, pb) ==
    IF id \notin Ids(trs)
    THEN [test_results |-> trs, test_start |-> ts, test_current_question |-> cur,
          kind |-> "none", shown_tr |-> NULL, shown_index |-> NULL,
          keyboards |-> {<<>>}]
    ELSE IF past_last_question(idx, Len(all_questions(trs[id].test_id)))
    THEN [test_results |-> finish_test(trs, uas, ts, id, d, pb),
          test_start |-> ts \ {id}, test_current_question |-> pop(cur, id),
          kind |-> "finished", shown_tr |-> id, shown_index |-> NULL,
          keyboards |-> {<<>>}]
    ELSE IF /\ idx < Len(all_questions(trs[id].test_id))
            /\ Cardinality(existing_answers(uas, id,
                               all_questions(trs[id].test_id)[idx + 1])) > 1
    THEN \* scalar_one_or_none raises MultipleResultsFound: nothing is sent
         [test_results |-> trs, test_start |-> ts, test_current_question |-> cur,
          kind |-> "raised", shown_tr |-> NULL, shown_index |-> NULL,
          keyboards |-> {<<>>}]
    ELSE [test_results |-> trs, test_start |-> ts,
          test_current_question |-> (id :> idx) @@ cur,
          kind |-> "question", shown_tr |-> id, shown_index |-> idx,
          keyboards |-> LET qs == all_questions(trs[id].test_id)
                        IN IF idx + 1 \in DOMAIN qs
                           THEN {keyboard(sh) : sh \in shuffles(qs[idx + 1])}
                           ELSE {<<>>}]

\* ---------------------------------------------------------- handle_start_test
\* ids of the rows with completed_at IS NULL of test t and user u
incomplete_results(trs, u, t) ==
    {j \in Ids(trs) : trs[j].test_id = t /\ trs[j].user_id = u
                      /\ trs[j].completed_at = NULL}

\* count of the attempt's user_answers with is_skipped == False
answered_count(uas, id) ==
    Cardinality({a \in uas : a.test_result_id = id /\ ~a.is_skipped})

\* handle_start_test from the access check on (the user row exists in us).
\* Returns the tables, the id of the attempt it created (NULL if none) and
\* what it showed.
handle_start_test(us, acc, trs, uas, ts, cur, u, t) ==
    LET same(kind, us1, acc1, trs1, cost) ==
            [users |-> us1, test_access |-> acc1, test_results |-> trs1,
             test_start |-> ts, test_current_question |-> cur,
             created |-> NULL, kind |-> kind, shown_tr |-> NULL,
             shown_index |-> NULL, cost |-> cost, keyboards |-> {<<>>}]
    IN
    IF t \notin tests THEN same("refused", us, acc, trs, NULL)
    ELSE
    LET ca == check_access(us, acc, u, t) IN
    IF ~ca.ok THEN same("denied", us, acc, trs, ca.cost)
    ELSE
    LET inc == incomplete_results(trs, u, t)
        incomplete_result == IF inc = {} THEN NULL ELSE SetMax(inc)
        total_questions == question_count(t)
        all_answered == incomplete_result # NULL
                        /\ answered_count(uas, incomplete_result) >= total_questions
        trs1 == IF all_answered
                THEN [trs EXCEPT ![incomplete_result].completed_at = DATETIME]
                ELSE trs
    IN
    IF incomplete_result # NULL /\ ~all_answered
    THEN [same("prompt", ca.users, ca.test_access, trs1, NULL)
             EXCEPT !.shown_tr = incomplete_result]
    ELSE IF all_questions(t) = <<>>
    THEN same("refused", ca.users, ca.test_access, trs1, NULL)
    ELSE
    LET id == Len(trs1) + 1
        \* completed_at=None is passed to the constructor
        trs2 == Append(trs1, new_test_result(t, u, NULL))
        sq == show_question(trs2, uas, ts \cup {id}, (id :> 0) @@ cur, id, 0, 0, 0)
    IN [users |-> ca.users, test_access |-> ca.test_access,
        test_results |-> sq.test_results, test_start |-> sq.test_start,
        test_current_question |-> sq.test_current_question,
        created |-> id, kind |-> sq.kind, shown_tr |-> sq.shown_tr,
        shown_index |-> sq.shown_index, cost |-> NULL,
        keyboards |-> sq.keyboards]

\* start with the argument test_<t> (the deep link): the same access step,
\* then a new TestResult with no check for an incomplete one and with
\* completed_at not passed to the constructor.
start_test_link(us, acc, trs, uas, ts, cur, u, t) ==
    LET same(kind, us1, acc1, cost) ==
            [users |-> us1, test_access |-> acc1, test_results |-> trs,
             test_start |-> ts, test_current_question |-> cur,
             created |-> NULL, kind |-> kind, shown_tr |-> NULL,
             shown_index |-> NULL, cost |-> cost, keyboards |-> {<<>>}]
    IN
    IF t \notin tests THEN same("refused", us, acc, NULL)
    ELSE
    LET ca == check_access(us, acc, u, t) IN
    IF ~ca.ok THEN same("denied", us, acc, ca.cost)
    ELSE IF all_questions(t) = <<>>
    THEN same("refused", ca.users, ca.test_access, NULL)
    ELSE
    LET id == Len(trs) + 1
        trs2 == Append(trs, new_test_result(t, u, NULL))
        sq == show_question(trs2, uas, ts \cup {id}, (id :> 0) @@ cur, id, 0, 0, 0)
    IN [users |-> ca.users, test_access |-> ca.test_access,
        test_results |-> sq.test_results, test_start |-> sq.test_start,
        test_current_question |-> sq.test_current_question,
        created |-> id, kind |-> sq.kind, shown_tr |-> sq.shown_tr,
        shown_index |-> sq.shown_index, cost |-> NULL,
        keyboards |-> sq.keyboards]


\* ------------------------------------------------------ handle_answer_question
\* max(0, x - 1)
dec(x) == IF x - 1 > 0 THEN x - 1 ELSE 0

\* variant: the skip is counted, the old category is not given back
counters_after_skip_existing_no_decrement(r, old_correct, old_skipped) ==
    IF ~old_skipped THEN [r EXCEPT !.skipped_answers = r.skipped_answers + 1]
    ELSE r

\* counters of the attempt row after a skip of a question that already has a
\* user_answer (old_correct, old_skipped are that row's flags)
counters_after_skip_existing(r, old_correct, old_skipped) ==
    IF ~old_skipped
    THEN IF old_correct
         THEN [r EXCEPT !.correct_answers = dec(r.correct_answers),
                        !.skipped_answers = r.skipped_answers + 1]
         ELSE [r EXCEPT !.wrong_answers = dec(r.wrong_answers),
                        !.skipped_answers = r.skipped_answers + 1]
    ELSE r

\* variant: the new category is counted, the old one is not given back
counters_after_reanswer_added(r, old_correct, old_skipped, is_correct) ==
    IF is_correct
    THEN [r EXCEPT !.correct_answers = r.correct_answers + 1]
    ELSE [r EXCEPT !.wrong_answers = r.wrong_answers + 1]

\* variant: a skipped question answered later keeps its skip counted
counters_after_reanswer_skip_kept(r, old_correct, old_skipped, is_correct) ==
    LET r1 == IF old_skipped THEN r
              ELSE IF old_correct
              THEN [r EXCEPT !.correct_answers = dec(r.correct_answers)]
              ELSE [r EXCEPT !.wrong_answers = dec(r.wrong_answers)]
    IN IF is_correct
       THEN [r1 EXCEPT !.correct_answers = r1.correct_answers + 1]
       ELSE [r1 EXCEPT !.wrong_answers = r1.wrong_answers + 1]

\* counters after an answer to a question that already has a user_answer
counters_after_reanswer(r, old_correct, old_skipped, is_correct) ==
    LET r1 == IF old_skipped
              THEN [r EXCEPT !.skipped_answers = dec(r.skipped_answers)]
              ELSE IF old_correct
              THEN [r EXCEPT !.correct_answers = dec(r.correct_answers)]
              ELSE [r EXCEPT !.wrong_answers = dec(r.wrong_answers)]
    IN IF is_correct
       THEN [r1 EXCEPT !.correct_answers = r1.correct_answers + 1]
       ELSE [r1 EXCEPT !.wrong_answers = r1.wrong_answers + 1]

\* counters after the first user_answer of a question
counters_after_new(r, is_correct, is_skipped) ==
    IF is_skipped THEN [r EXCEPT !.skipped_answers = r.skipped_answers + 1]
    ELSE IF is_correct THEN [r EXCEPT !.correct_answers = r.correct_answers + 1]
    ELSE [r EXCEPT !.wrong_answers = r.wrong_answers + 1]

UserAnswer(tr, q, a, is_correct, is_skipped) ==
    [test_result_id |-> tr, question_id |-> q, answer_id |-> a,
     is_correct |-> is_correct, is_skipped |-> is_skipped]

\* the category a user_answer is counted in
category(x) ==
    IF x.is_skipped THEN "skipped" ELSE IF x.is_correct THEN "correct" ELSE "wrong"

\* the position of the button that carries answer a on the keyboard of the
\* message sent last, NULL when that keyboard has no such button
display_position(a) ==
    IF \E i \in DOMAIN last.keyboard : last.keyboard[i].answer_id = a
    THEN CHOOSE i \in DOMAIN last.keyboard : last.keyboard[i].answer_id = a
    ELSE NULL

\* variant: the answer is looked up by the letter its button shows, which
\* is the answer_letter of the answer stored at that position
selected_is_correct_by_letter(a) ==
    LET sel == CHOOSE x \in answers : x.id = a
        i == display_position(a)
        byletter == IF i = NULL THEN a
                    ELSE (CHOOSE x \in answers :
                             /\ x.question_id = sel.question_id
                             /\ x.answer_letter = last.keyboard[i].display_letter).id
    IN (CHOOSE x \in answers : x.id = byletter).is_correct

\* select(Answer).where(Answer.id == answer_id), then
\* is_correct = selected_answer.is_correct
selected_is_correct(a) == (CHOOSE x \in answers : x.id = a).is_correct

\* variant: the existing row is deleted and none is written
updated_deleted(uas, old, new) == uas \ {old}

\* existing_answer.answer_id / is_correct / is_skipped are assigned: the row
\* old of user_answers becomes new, which has old's attempt and question
updated_in_place(uas, old, new) == (uas \ {old}) \cup {new}

\* the upsert of handle_answer_question for an attempt that exists and is
\* the caller's, with at most one existing row and (a # NULL) an answer row
\* that exists: the new user_answers and test_results
record_answer(trs, uas, tr, q, a) ==
    LET ex == existing_answers(uas, tr, q)
        is_correct == IF a = NULL THEN FALSE ELSE selected_is_correct(a)
        new == UserAnswer(tr, q, a, is_correct, a = NULL)
    IN IF ex = {}
       THEN [upsert |-> "new", written |-> category(new),
             user_answers |-> uas \cup {new},
             test_results |-> [trs EXCEPT ![tr] =
                                 counters_after_new(trs[tr], is_correct, a = NULL)]]
       ELSE LET old == CHOOSE x \in ex : TRUE IN
            [upsert |-> category(old), written |-> category(new),
             user_answers |-> updated_in_place(uas, old, new),
             test_results |-> [trs EXCEPT ![tr] =
                 IF a = NULL
                 THEN counters_after_skip_existing(trs[tr], old.is_correct, old.is_skipped)
                 ELSE counters_after_reanswer(trs[tr], old.is_correct,
                                              old.is_skipped, is_correct)]]

\* ------------------------------------------------------- handle_continue_test
\* index of the first question of the list with no user_answer of the
\* attempt, Len(list) when there is none
next_question_index(uas, id, qs) ==
    LET answered_question_ids == {x.question_id : x \in {y \in uas : y.test_result_id = id}}
        un == {i \in 1..Len(qs) : qs[i] \notin answered_question_ids}
    IN IF un = {} THEN Len(qs) ELSE SetMin(un) - 1

\* ------------------------------------------------------------------- actions
Init ==
    /\ tests = InitTests
    /\ questions = InitQuestions
    /\ answers = InitAnswers
    /\ users = <<>>
    /\ test_access = <<>>
    /\ test_results = <<>>
    /\ user_answers = {}
    /\ payments = <<>>
    /\ test_start = {}
    /\ test_current_question = <<>>
    /\ update_count = 0
    /\ in_progress = {}
    /\ conversation = [u \in Users |-> END]
    /\ live = {}
    /\ last = Last("none", NULL, NULL, NULL, "", "")

Quiz == <<tests, questions, answers>>

\* /start, with no argument (arg = NULL) or with the argument test_<arg>
start(u, arg) ==
    LET us == get_or_create_user(users, u) IN
    IF arg = NULL
    THEN /\ users' = us
         /\ last' = Last("menu", NULL, NULL, NULL, "", "")
         /\ UNCHANGED <<Quiz, test_access, test_results, user_answers, payments,
                        test_start, test_current_question, live>>
    ELSE LET res == start_test_link(us, test_access, test_results, user_answers,
                                    test_start, test_current_question, u, arg)
         IN /\ res.created # NULL => Len(test_results) < MaxAttempts
            /\ users' = res.users
            /\ test_access' = res.test_access
            /\ test_results' = res.test_results
            /\ test_start' = res.test_start
            /\ test_current_question' = res.test_current_question
            /\ live' = IF res.created # NULL THEN live \cup {res.created} ELSE live
            /\ \E kb \in res.keyboards :
                  /\ last' = Shown(Last(res.kind, res.shown_tr, res.shown_index,
                                        res.cost, "", ""), kb)
                  /\ answers' = answers_after_show(answers, kb)
            /\ UNCHANGED <<tests, questions, user_answers, payments>>

\* button_handler, callback data test_<t>
button_test(u, t) ==
    LET us == get_or_create_user(users, u)
        res == handle_start_test(us, test_access, test_results, user_answers,
                                 test_start, test_current_question, u, t)
    IN /\ res.created # NULL => Len(test_results) < MaxAttempts
       /\ users' = res.users
       /\ test_access' = res.test_access
       /\ test_results' = res.test_results
       /\ test_start' = res.test_start
       /\ test_current_question' = res.test_current_question
       /\ live' = IF res.created # NULL THEN live \cup {res.created} ELSE live
       /\ \E kb \in res.keyboards :
             /\ last' = Shown(Last(res.kind, res.shown_tr, res.shown_index,
                                   res.cost, "", ""), kb)
             /\ answers' = answers_after_show(answers, kb)
       /\ UNCHANGED <<tests, questions, user_answers, payments>>

\* button_handler, callback data restart_test_<t>: handle_restart_test stamps
\* the caller's incomplete rows of the test, then runs handle_start_test
button_restart_test(u, t) ==
    LET us == get_or_create_user(users, u)
        inc == incomplete_results(test_results, u, t)
        trs1 == [j \in Ids(test_results) |->
                    IF j \in inc
                    THEN [test_results[j] EXCEPT !.completed_at = DATETIME]
                    ELSE test_results[j]]
        res == handle_start_test(us, test_access, trs1, user_answers,
                                 test_start, test_current_question, u, t)
        restarted == {j \in Ids(test_results) : test_results[j].user_id = u
                                                /\ test_results[j].test_id = t}
    IN /\ res.created # NULL => Len(test_results) < MaxAttempts
       /\ users' = res.users
       /\ test_access' = res.test_access
       /\ test_results' = res.test_results
       /\ test_start' = res.test_start
       /\ test_current_question' = res.test_current_question
       /\ live' = IF res.created # NULL THEN (live \ restarted) \cup {res.created}
                  ELSE live \ restarted
       /\ \E kb \in res.keyboards :
             /\ last' = Shown(Last(res.kind, res.shown_tr, res.shown_index,
                                   res.cost, "", ""), kb)
             /\ answers' = answers_after_show(answers, kb)
       /\ UNCHANGED <<tests, questions, user_answers, payments>>

\* button_handler, callback data continue_test_<tr>
button_continue_test(u, tr, d) ==
    IF tr \notin Ids(test_results) \/ test_results[tr].completed_at # NULL
    THEN /\ last' = Last("refused", NULL, NULL, NULL, "", "")
         /\ UNCHANGED <<Quiz, users, test_access, test_results, user_answers,
                        payments, test_start, test_current_question, live>>
    ELSE IF test_results[tr].user_id # u
    THEN /\ last' = Last("refused", NULL, NULL, NULL, "", "")
         /\ UNCHANGED <<Quiz, users, test_access, test_results, user_answers,
                        payments, test_start, test_current_question, live>>
    ELSE LET qs == all_questions(test_results[tr].test_id)
             nqi == next_question_index(user_answers, tr, qs)
         IN IF nqi >= Len(qs)
            THEN \E pb \in previous_best_choices(test_results, tr) :
                 /\ test_results' = finish_test(
                        [test_results EXCEPT ![tr].completed_at = DATETIME],
                        user_answers, test_start, tr, d, pb)
                 /\ test_start' = test_start \ {tr}
                 /\ test_current_question' = pop(test_current_question, tr)
                 /\ live' = live \ {tr}
                 /\ last' = Result(tr, "", "", leaderboard(test_results', tr))
                 /\ UNCHANGED <<Quiz, users, test_access, user_answers, payments>>
            ELSE LET sq == show_question(test_results, user_answers,
                               test_start \cup {tr},
                               (tr :> nqi) @@ test_current_question, tr, nqi, d, 0)
                 IN /\ test_results' = sq.test_results
                    /\ test_start' = sq.test_start
                    /\ test_current_question' = sq.test_current_question
                    /\ \E kb \in sq.keyboards :
                          /\ last' = Shown(Last(sq.kind, sq.shown_tr, sq.shown_index,
                                                NULL, "", ""), kb)
                          /\ answers' = answers_after_show(answers, kb)
                    /\ UNCHANGED <<tests, questions, users, test_access, user_answers,
                                   payments, live>>

\* variant: the attempt's owner is not compared with the caller
answer_refused_owner_unchecked(trs, u, tr) ==
    tr \notin Ids(trs)

\* handle_answer_question answers with the alert "Xatolik!" and returns,
\* before anything else is read, when the attempt is missing or is not the
\* caller's
answer_refused(trs, u, tr) ==
    \/ tr \notin Ids(trs)
    \/ (tr \in Ids(trs) /\ trs[tr].user_id # u)

\* select(Answer).where(Answer.id == answer_id) finds no row: the alert
\* again, for an answer that is not a skip
answer_missing(a) ==
    a # NULL /\ ~(\E x \in answers : x.id = a)

\* context.user_data.get(f'test_current_question_{id}', 0)
cursor(cur, id) == IF id \in DOMAIN cur THEN cur[id] ELSE 0

\* session.commit() of handle_answer_question: the row added or changed and
\* the counters computed from the values read are written
answer_committed(read_trs, read_uas, tr, q, a) ==
    LET ra == record_answer(read_trs, read_uas, tr, q, a) IN
    [upsert |-> ra.upsert, written |-> ra.written,
     user_answers |-> (user_answers \ (read_uas \ ra.user_answers))
                         \cup (ra.user_answers \ read_uas),
     test_results |-> [test_results EXCEPT
                         ![tr].correct_answers = ra.test_results[tr].correct_answers,
                         ![tr].wrong_answers = ra.test_results[tr].wrong_answers,
                         ![tr].skipped_answers = ra.test_results[tr].skipped_answers]]

\* handle_answer_question(tr, q, a) called for user u, a = NULL for skip,
\* with read_trs and read_uas the tables as its selects saw them; at the
\* commit it is finished d seconds after the attempt's start
handle_answer_question(read_trs, read_uas, u, tr, q, a, d) ==
    LET err(kind) ==
            /\ last' = Last(kind, NULL, NULL, NULL, "", "")
            /\ UNCHANGED <<Quiz, users, test_access, test_results, user_answers,
                           payments, test_start, test_current_question, live>>
    IN
    IF answer_refused(read_trs, u, tr) THEN err("alert")
    ELSE IF Cardinality(existing_answers(read_uas, tr, q)) > 1
    THEN err("refused")   \* scalar_one_or_none raises MultipleResultsFound
    ELSE IF answer_missing(a) THEN err("alert")
    ELSE
    LET ra == answer_committed(read_trs, read_uas, tr, q, a)
        committed_uas == ra.user_answers
        committed_trs == ra.test_results
        current_index == cursor(test_current_question, tr)
    IN \E pb \in previous_best_choices(committed_trs, tr) :
       /\ ra.upsert = "new" => Cardinality(user_answers) < MaxAnswers
       /\ LET sq == show_question(committed_trs, committed_uas, test_start,
                                  test_current_question, tr, current_index + 1, d, pb)
          IN /\ user_answers' = committed_uas
             /\ test_results' = sq.test_results
             /\ test_start' = sq.test_start
             /\ test_current_question' = sq.test_current_question
             /\ live' = IF sq.kind = "finished" THEN live \ {tr} ELSE live
             /\ \E kb \in sq.keyboards :
                   /\ last' = [Shown(IF sq.kind = "finished"
                                     THEN Result(tr, ra.upsert, ra.written,
                                                 leaderboard(sq.test_results, tr))
                                     ELSE Last(sq.kind, sq.shown_tr, sq.shown_index,
                                               NULL, ra.upsert, ra.written), kb)
                                 EXCEPT !.pressed = IF last.shown_tr = tr
                                                    THEN display_position(a) ELSE NULL]
                   /\ answers' = answers_after_show(answers, kb)
             /\ UNCHANGED <<tests, questions, users, test_access, payments>>

\* button_handler, callback data answer_<tr>_<q>_<a>, a = NULL for skip:
\* the handler runs from its reads to its commit with no other handler in
\* between
button_answer(u, tr, q, a, d) ==
    handle_answer_question(test_results, user_answers, u, tr, q, a, d)

\* button_handler, callback data topup_<amount>: handle_select_topup_amount
button_topup(u, amount) ==
    LET payment_id == IF DOMAIN payments = {} THEN 1 ELSE SetMax(DOMAIN payments) + 1
    IN /\ payment_id <= MaxPayments
       /\ payments' = (payment_id :> [user_id |-> u, amount |-> amount,
                                      is_verified |-> FALSE]) @@ payments
       /\ last' = Last("payment", NULL, NULL, NULL, "", "")
       /\ UNCHANGED <<Quiz, users, test_access, test_results, user_answers,
                      test_start, test_current_question, live>>

\* payment_verification_handler: handle_verify_payment(payment_id, verify)
handle_verify_payment(u, payment_id, verify) ==
    LET same(kind) ==
            /\ last' = Last(kind, NULL, NULL, NULL, "", "")
            /\ UNCHANGED <<Quiz, users, test_access, test_results, user_answers,
                           payments, test_start, test_current_question, live>>
    IN
    IF u \notin ADMIN_IDS THEN same("refused")
    ELSE IF payment_id \notin DOMAIN payments THEN same("refused")
    ELSE IF payments[payment_id].is_verified THEN same("refused")
    ELSE IF verify
    THEN IF payments[payment_id].user_id \in DOMAIN users
         THEN /\ payments' = [payments EXCEPT ![payment_id].is_verified = TRUE]
              /\ users' = [users EXCEPT ![payments[payment_id].user_id] =
                              @ + payments[payment_id].amount]
              /\ last' = Last("verified", NULL, NULL, NULL, "", "")
              /\ UNCHANGED <<Quiz, test_access, test_results, user_answers,
                             test_start, test_current_question, live>>
         ELSE same("refused")   \* nothing is committed
    ELSE /\ payments' = pop(payments, payment_id)
         /\ last' = Last("rejected", NULL, NULL, NULL, "", "")
         /\ UNCHANGED <<Quiz, users, test_access, test_results, user_answers,
                        test_start, test_current_question, live>>

\* The process is stopped and started again: the tables persist in bot.db,
\* user_data and the conversations (no persistence is configured) start
\* empty.
process_restart ==
    /\ test_start' = {}
    /\ test_current_question' = <<>>
    /\ conversation' = [u \in Users |-> END]
    /\ UNCHANGED <<Quiz, users, test_access, test_results, user_answers,
                   payments, live, last>>

\* A handler that is stopped with the process: what it has committed
\* persists, nothing more of it runs, no message follows, and user_data
\* and the conversations start empty.
stopped ==
    /\ test_start' = {}
    /\ test_current_question' = <<>>
    /\ conversation' = [u \in Users |-> END]
    /\ last' = Last("stopped", NULL, NULL, NULL, "", "")

\* handle_answer_question stopped after its commit, in the sleep before
\* show_question: the answer and the counters are written, the attempt is
\* neither moved on nor finished
answer_stopped(read_trs, read_uas, u, tr, q, a) ==
    /\ ~answer_refused(read_trs, u, tr)
    /\ Cardinality(existing_answers(read_uas, tr, q)) <= 1
    /\ ~answer_missing(a)
    /\ LET ra == answer_committed(read_trs, read_uas, tr, q, a)
       IN /\ ra.upsert = "new" => Cardinality(user_answers) < MaxAnswers
          /\ user_answers' = ra.user_answers
          /\ test_results' = ra.test_results
    /\ stopped
    /\ UNCHANGED <<Quiz, users, test_access, payments, live>>

\* the incomplete row of user u and test t that handle_start_test stamps
\* because all its questions are answered, NULL when there is none
all_answered_result(trs, uas, u, t) ==
    LET inc == incomplete_results(trs, u, t)
        incomplete_result == IF inc = {} THEN NULL ELSE SetMax(inc)
    IN IF incomplete_result # NULL
          /\ answered_count(uas, incomplete_result) >= question_count(t)
       THEN incomplete_result ELSE NULL

\* start (argument test_<t>) or handle_start_test stopped after the commit
\* of the access step (stamp = FALSE), and handle_start_test stopped after
\* the commit that stamps the row with all its questions answered
\* (stamp = TRUE): the test is paid for, no attempt is created
start_test_stopped(u, t, stamp) ==
    LET us == get_or_create_user(users, u)
        ca == check_access(us, test_access, u, t)
        id == all_answered_result(test_results, user_answers, u, t)
    IN /\ t \in tests
       /\ ca.ok
       /\ stamp => id # NULL
       /\ users' = ca.users
       /\ test_access' = ca.test_access
       /\ test_results' = IF stamp
                          THEN [test_results EXCEPT ![id].completed_at = DATETIME]
                          ELSE test_results
       /\ stopped
       /\ UNCHANGED <<Quiz, user_answers, payments, live>>

\* handle_restart_test stopped after its commit, before handle_start_test:
\* the incomplete rows are stamped, no attempt is created
restart_test_stopped(u, t) ==
    LET inc == incomplete_results(test_results, u, t)
        restarted == {j \in Ids(test_results) : test_results[j].user_id = u
                                                /\ test_results[j].test_id = t}
    IN /\ users' = get_or_create_user(users, u)
       /\ test_results' = [j \in Ids(test_results) |->
                              IF j \in inc
                              THEN [test_results[j] EXCEPT !.completed_at = DATETIME]
                              ELSE test_results[j]]
       /\ live' = live \ restarted
       /\ stopped
       /\ UNCHANGED <<Quiz, test_access, user_answers, payments>>

\* handle_continue_test stopped after the commit that stamps the attempt
\* with every question answered, before finish_test
continue_test_stopped(u, tr) ==
    /\ tr \in Ids(test_results)
    /\ test_results[tr].completed_at = NULL
    /\ test_results[tr].user_id = u
    /\ LET qs == all_questions(test_results[tr].test_id)
       IN next_question_index(user_answers, tr, qs) >= Len(qs)
    /\ test_results' = [test_results EXCEPT ![tr].completed_at = DATETIME]
    /\ live' = live \ {tr}
    /\ stopped
    /\ UNCHANGED <<Quiz, users, test_access, user_answers, payments>>

\* attempt ids a client can send: those of the table and one that is absent
AttemptIds == 1..(Len(test_results) + 1)

\* time.time() - start_time when attempt tr is finished now: any duration
\* when its start time is in user_data, 0 when it is not
ElapsedOf(tr) == IF tr \in test_start THEN Durations ELSE {0}

\* an update of a test session: /start or a button of button_handler
session_update(StartArgs) ==
    \/ \E u \in Users, arg \in StartArgs : start(u, arg)
    \/ \E u \in Users, t \in TestIds : button_test(u, t)
    \/ \E u \in Users, t \in TestIds : button_restart_test(u, t)
    \/ \E u \in Users, tr \in AttemptIds : \E d \in ElapsedOf(tr) :
          button_continue_test(u, tr, d)
    \/ \E u \in Users, tr \in AttemptIds, qa \in AnswerInputs :
          \E d \in ElapsedOf(tr) : button_answer(u, tr, qa[1], qa[2], d)

\* an update of a test session whose handler is stopped with the process
\* between two of its commits
stopped_update ==
    \/ \E u \in Users, t \in TestIds, stamp \in BOOLEAN :
          start_test_stopped(u, t, stamp)
    \/ \E u \in Users, t \in TestIds : restart_test_stopped(u, t)
    \/ \E u \in Users, tr \in AttemptIds : continue_test_stopped(u, tr)
    \/ \E u \in Users, tr \in AttemptIds, qa \in AnswerInputs :
          answer_stopped(test_results, user_answers, u, tr, qa[1], qa[2])

\* the amounts of the callback data topup_<amount>: those of the buttons,
\* and integers no button carries (int(data.split("_")[1]) takes any)
TopupAmounts == PAYMENT_AMOUNTS \cup {-50000, 1}

\* an update of the top-up flow
payment_update ==
    \/ \E u \in Users, amount \in TopupAmounts : button_topup(u, amount)
    \/ \E u \in Users, p \in 1..(MaxPayments + 1), verify \in BOOLEAN :
          handle_verify_payment(u, p, verify)

\* The sessions of users whose top-ups were verified before: user 1 was
\* credited 20000 (payment 1) and user 2 10000 (payment 2); no test has been
\* started yet.
InitSession ==
    /\ tests = InitTests
    /\ questions = InitQuestions
    /\ answers = InitAnswers
    /\ users = (1 :> 20000) @@ (2 :> 10000)
    /\ test_access = <<>>
    /\ test_results = <<>>
    /\ user_answers = {}
    /\ payments = (1 :> [user_id |-> 1, amount |-> 20000, is_verified |-> TRUE])
                   @@ (2 :> [user_id |-> 2, amount |-> 10000, is_verified |-> TRUE])
    /\ test_start = {}
    /\ test_current_question = <<>>
    /\ update_count = 0
    /\ in_progress = {}
    /\ conversation = [u \in Users |-> END]
    /\ live = {}
    /\ last = Last("none", NULL, NULL, NULL, "", "")

\* The answering part of the sessions: tests are started from the menu and
\* answers are sent, by either user, for any attempt.
NextAnswering ==
    /\ update_count < MaxUpdates
    /\ update_count' = update_count + 1
    /\ UNCHANGED <<in_progress, conversation>>
    /\ \/ \E u \in Users, t \in {1, 2} : button_test(u, t)
       \/ \E u \in Users, tr \in AttemptIds, qa \in AnswerInputs :
             \E d \in ElapsedOf(tr) : button_answer(u, tr, qa[1], qa[2], d)

SpecAnswering == InitSession /\ [][NextAnswering]_vars

\* A session picked up in the middle: user 1 has paid for test 1 out of the
\* 20000 credited and has just been sent its first question (attempt 1);
\* user 2 has not started anything.
InitResume ==
    /\ tests = InitTests
    /\ questions = InitQuestions
    /\ answers = InitAnswers
    /\ users = (1 :> 20000 - calculate_test_cost(question_count(1))) @@ (2 :> 10000)
    /\ test_access = <<[user_id |-> 1, test_id |-> 1]>>
    /\ test_results = <<new_test_result(1, 1, NULL)>>
    /\ user_answers = {}
    /\ payments = (1 :> [user_id |-> 1, amount |-> 20000, is_verified |-> TRUE])
                   @@ (2 :> [user_id |-> 2, amount |-> 10000, is_verified |-> TRUE])
    /\ test_start = {1}
    /\ test_current_question = (1 :> 0)
    /\ update_count = 0
    /\ in_progress = {}
    /\ conversation = [u \in Users |-> END]
    /\ live = {1}
    /\ \E sh \in shuffles(1) :
          last = Shown(Last("question", 1, 0, NULL, "", ""), keyboard(sh))

\* variant: the application is built with concurrent_updates(True)
concurrent_updates_enabled == TRUE

\* Application.builder().token(BOT_TOKEN).build(): concurrent_updates keeps
\* its default, so an update is processed only when the handler of the one
\* before has returned
concurrent_updates == FALSE

\* An answer update is taken from the update queue and its handler runs
\* up to its commit: it has read the tables as they are now.
answer_read(u, tr, q, a) ==
    /\ concurrent_updates \/ in_progress = {}
    /\ update_count < MaxUpdates
    /\ update_count' = update_count + 1
    /\ in_progress' = in_progress \cup
          {[update_id |-> update_count, user_id |-> u, test_result_id |-> tr,
            question_id |-> q, answer_id |-> a,
            test_results |-> test_results, user_answers |-> user_answers]}
    /\ UNCHANGED <<Quiz, users, test_access, test_results, user_answers, payments,
                   test_start, test_current_question, conversation, live, last>>

\* The handler call h commits what it computed from its reads and goes on
\* to show_question.
answer_commit(h, d) ==
    /\ h \in in_progress
    /\ handle_answer_question(h.test_results, h.user_answers, h.user_id,
                              h.test_result_id, h.question_id, h.answer_id, d)
    /\ in_progress' = in_progress \ {h}
    /\ UNCHANGED <<update_count, conversation>>

\* The handler call h commits and is stopped with the process in the sleep
\* that follows; the calls in progress go with the process.
answer_commit_stopped(h) ==
    /\ h \in in_progress
    /\ answer_stopped(h.test_results, h.user_answers, h.user_id,
                      h.test_result_id, h.question_id, h.answer_id)
    /\ in_progress' = {}
    /\ UNCHANGED update_count

\* The answer updates of a session that has begun, each processed from its
\* reads to its commit.
NextUpdates ==
    \/ \E u \in Users, tr \in AttemptIds, qa \in AnswerInputs :
          answer_read(u, tr, qa[1], qa[2])
    \/ \E h \in in_progress : \E d \in ElapsedOf(h.test_result_id) :
          answer_commit(h, d)
    \/ \E h \in in_progress : answer_commit_stopped(h)

SpecUpdates == InitResume /\ [][NextUpdates]_vars

\* Attempts at the one-question test 2 by the funded users, each started
\* with the test button and ended by an answer or a skip of its question:
\* as many updates as it takes to start and finish MaxAttempts attempts.
NextScoring ==
    /\ update_count < 2 * MaxAttempts
    /\ update_count' = update_count + 1
    /\ UNCHANGED <<in_progress, conversation>>
    /\ \/ \E u \in Users : button_test(u, 2)
       \/ \E u \in Users, tr \in AttemptIds, a \in {5, 6, NULL} :
             \E d \in ElapsedOf(tr) : button_answer(u, tr, 3, a, d)

SpecScoring == InitSession /\ [][NextScoring]_vars

\* A single test of any number of questions up to MaxQuestions, and two
\* users without balance who try to start it and are quoted its cost.
InitCost ==
    /\ tests = {1}
    /\ \E n \in 0..MaxQuestions :
          questions = {[id |-> i, test_id |-> 1, question_number |-> i] :
                         i \in 1..n}
    /\ answers = {}
    /\ users = (1 :> 0) @@ (2 :> 0)
    /\ test_access = <<>>
    /\ test_results = <<>>
    /\ user_answers = {}
    /\ payments = <<>>
    /\ test_start = {}
    /\ test_current_question = <<>>
    /\ update_count = 0
    /\ in_progress = {}
    /\ conversation = [u \in Users |-> END]
    /\ live = {}
    /\ last = Last("none", NULL, NULL, NULL, "", "")

NextCost ==
    /\ update_count < 2
    /\ update_count' = update_count + 1
    /\ UNCHANGED <<in_progress, conversation>>
    /\ \/ \E u \in Users : start(u, 1)
       \/ \E u \in Users : button_test(u, 1)
       \/ \E u \in Users : button_restart_test(u, 1)

SpecCost == InitCost /\ [][NextCost]_vars


\* ================================================================== claims
Categories == {"correct", "wrong", "skipped"}

\* the attempt's user_answers
rows_of(uas, id) == {x \in uas : x.test_result_id = id}

\* the counter of the attempt row for a category
counter(r, c) ==
    IF c = "correct" THEN r.correct_answers
    ELSE IF c = "wrong" THEN r.wrong_answers
    ELSE r.skipped_answers

\* the balance of a user, 0 for a user with no row yet
balance_of(us, u) == IF u \in DOMAIN us THEN us[u] ELSE 0

\* every question of the attempt's test has a user_answer of the attempt
all_recorded(trs, uas, id) ==
    \A i \in 1..Len(all_questions(trs[id].test_id)) :
        existing_answers(uas, id, all_questions(trs[id].test_id)[i]) # {}

\* the live attempts of user u on test t
live_of(trs, lv, u, t) ==
    {id \in lv : trs[id].user_id = u /\ trs[id].test_id = t}

\* ------------------------------------------------------------------------
\* C1: after any sequence of answers, re-answers and skips, each counter of
\* every attempt is non-negative and equals the number of the attempt's
\* user_answers in its category.
C1_CountersMatchRows ==
    \A id \in Ids(test_results) : \A c \in Categories :
        /\ counter(test_results[id], c) >= 0
        /\ counter(test_results[id], c) =
              Cardinality({x \in rows_of(user_answers, id) : category(x) = c})

\* the last step rewrote a user_answer of an attempt, moving it into or out
\* of the skipped category
C1_Witness ==
    /\ last.upsert \in Categories
    /\ last.written \in Categories
    /\ last.written # last.upsert
    /\ "skipped" \in {last.upsert, last.written}
    /\ last.shown_tr \in Ids(test_results)
    /\ rows_of(user_answers, last.shown_tr) # {}

\* ------------------------------------------------------------------------
\* C2: an answer sent for an attempt whose completed_at is set is refused:
\* no user_answer and no counter changes, and neither a question nor a
\* result is shown.
C2_CompletedAttemptRefusesAnswer ==
    [][\A u \in Users, tr \in Ids(test_results), qa \in AnswerInputs, d \in Durations :
          (test_results[tr].completed_at # NULL
             /\ button_answer(u, tr, qa[1], qa[2], d))
          => (/\ user_answers' = user_answers
              /\ test_results' = test_results
              /\ last'.kind = "alert")]_vars

C4_NoNewAttemptWhileLive ==
    [][\A u \in Users, t \in tests :
          ((start(u, t) \/ button_test(u, t))
             /\ Len(test_results') > Len(test_results))
          => live_of(test_results, live, u, t) = {}]_vars

\* ------------------------------------------------------------------------
\* C5: every attempt is created with completed_at NULL and the three
\* counters zero, whichever entry point creates it.
C5_CreatedInProgress ==
    [][\A id \in Ids(test_results') \ Ids(test_results) :
          /\ test_results'[id].completed_at = NULL
          /\ \A c \in Categories : counter(test_results'[id], c) = 0]_vars

\* ------------------------------------------------------------------------
\* C6: continuing an attempt that its user started and has neither finished
\* nor restarted, and that still has a question without a user_answer,
\* shows the first such question in question-number order.
C6_ContinueShowsFirstUnanswered ==
    [][\A u \in Users, tr \in Ids(test_results), d \in Durations :
          (/\ tr \in live
           /\ test_results[tr].user_id = u
           /\ ~all_recorded(test_results, user_answers, tr)
           /\ button_continue_test(u, tr, d))
          => (/\ last'.kind = "question"
              /\ last'.shown_tr = tr
              /\ last'.shown_index =
                    next_question_index(user_answers, tr,
                                        all_questions(test_results[tr].test_id)))]_vars

\* ------------------------------------------------------------------------
\* C7: when the user presses test_<t> while an attempt of theirs on t is
\* neither finished nor restarted and has a user_answer for every question,
\* that attempt is completed and scored by this step.
C7_AllRecordedIsScored ==
    [][\A u \in Users, t \in tests :
          button_test(u, t)
          => \A id \in live_of(test_results, live, u, t) :
                all_recorded(test_results, user_answers, id) => id \notin live']_vars

\* ------------------------------------------------------------------------
\* C8: after restart_test_<t> by a user who has access to t (or can pay
\* for it): the rows of the pair that had completed_at NULL have it set and
\* are otherwise as before, the rows of other users and tests are as
\* before, and exactly one row of the pair has completed_at NULL, the new
\* one, with zero counters.
C8_Restart ==
    [][\A u \in Users, t \in tests :
          (/\ button_restart_test(u, t)
           /\ \/ has_access(test_access, u, t)
              \/ balance_sufficient(balance_of(users, u),
                                    calculate_test_cost(question_count(t))))
          => (/\ Len(test_results') = Len(test_results) + 1
              /\ \A id \in Ids(test_results) :
                    IF id \in incomplete_results(test_results, u, t)
                    THEN test_results'[id] =
                            [test_results[id] EXCEPT !.completed_at = DATETIME]
                    ELSE test_results'[id] = test_results[id]
              /\ incomplete_results(test_results', u, t) = {Len(test_results')}
              /\ \A c \in Categories :
                    counter(test_results'[Len(test_results')], c) = 0)]_vars

\* ------------------------------------------------------------------------
\* C9: a start (link, button or restart) by a user who has no access row
\* for the test and whose balance is below the cost is refused with that
\* cost and creates no attempt and no access row and leaves the balance as
\* it was; and every attempt's user has an access row for its test.
C9_AccessDenied ==
    /\ [][\A u \in Users, t \in tests :
            (/\ ~has_access(test_access, u, t)
             /\ balance_of(users, u) < calculate_test_cost(question_count(t))
             /\ start(u, t) \/ button_test(u, t) \/ button_restart_test(u, t))
            => (/\ last'.kind = "denied"
                /\ last'.cost = calculate_test_cost(question_count(t))
                /\ test_results' = test_results
                /\ test_access' = test_access
                /\ balance_of(users', u) = balance_of(users, u))]_vars
    /\ [](\A id \in Ids(test_results) :
            has_access(test_access, test_results[id].user_id, test_results[id].test_id))

\* a start was just refused for want of balance while an attempt exists
C9_Witness ==
    /\ last.kind = "denied"
    /\ test_results # <<>>

\* ------------------------------------------------------------------------
\* C10: a step that handles an update and updates an existing user_answer
\* (an accepted answer or skip for a question answered before) moves one
\* unit from the counter of the old category to the counter of the new one
\* and leaves the third as it was; when old and new category are the same
\* no counter changes.
C10_ReanswerDelta ==
    [][(update_count' # update_count /\ last'.upsert \in Categories)
          => LET tr == last'.shown_tr
                 old == last'.upsert
                 new == last'.written
             IN \A c \in Categories :
                  counter(test_results'[tr], c) =
                      counter(test_results[tr], c)
                      + (IF c = new /\ c # old THEN 1 ELSE 0)
                      - (IF c = old /\ c # new THEN 1 ELSE 0)]_vars

\* the last step changed a correct answer into a wrong one
C10_Witness ==
    /\ last.upsert = "correct"
    /\ last.written = "wrong"


\* ------------------------------------------------------------------------
\* C11: an accepted answer or skip for a question of the attempt that has
\* no user_answer inserts exactly one row and adds 1 to exactly the counter
\* of the category written; for a question that has one, the row is
\* rewritten and no row is added.  In every state there is at most one
\* user_answer per attempt and question.
C11_OneRowPerQuestion ==
    /\ [][(update_count' # update_count /\ last'.upsert # "")
            => LET tr == last'.shown_tr IN
               IF last'.upsert = "new"
               THEN /\ Cardinality(user_answers') = Cardinality(user_answers) + 1
                    /\ Cardinality(rows_of(user_answers', tr))
                          = Cardinality(rows_of(user_answers, tr)) + 1
                    /\ \A c \in Categories :
                          counter(test_results'[tr], c) =
                            counter(test_results[tr], c)
                            + (IF c = last'.written THEN 1 ELSE 0)
               ELSE /\ Cardinality(user_answers') = Cardinality(user_answers)
                    /\ Cardinality(rows_of(user_answers', tr))
                          = Cardinality(rows_of(user_answers, tr))]_vars
    /\ [](\A x, y \in user_answers :
            (x.test_result_id = y.test_result_id /\ x.question_id = y.question_id)
            => x = y)

\* the last step rewrote the only user_answer of an attempt from wrong to
\* correct
C11_Witness ==
    /\ last.upsert = "wrong"
    /\ last.written = "correct"
    /\ last.shown_tr \in Ids(test_results)
    /\ Cardinality(rows_of(user_answers, last.shown_tr)) = 1

\* ------------------------------------------------------------------------
\* C12: after an accepted answer or skip, giving again the answer or skip
\* that the attempt holds for a question (the one just recorded included)
\* leaves the user_answers and the three counters of the attempt as they
\* are, also when the second call ends in finish_test.
C12_RecordAnswerIdempotent ==
    [][last'.upsert # "" =>
         LET tr == last'.shown_tr IN
         \A x \in {y \in user_answers' : y.test_result_id = tr} :
            LET again == record_answer(test_results', user_answers', tr,
                                       x.question_id, x.answer_id)
            IN /\ again.upsert = again.written
               /\ again.user_answers = user_answers'
               /\ \A c \in Categories :
                     counter(again.test_results[tr], c) = counter(test_results'[tr], c)
               /\ \A pb \in previous_best_choices(again.test_results, tr),
                      c \in Categories :
                     counter(finish_test(again.test_results, again.user_answers,
                                         test_start', tr, 0, pb)[tr], c)
                       = counter(test_results'[tr], c)]_vars

\* the last step gave a correct answer to a question whose user_answer
\* was correct already
C12_Witness ==
    /\ last.upsert = "correct"
    /\ last.written = "correct"

\* ------------------------------------------------------------------------
\* C13: an answer or skip for an attempt id that is in no row, for an
\* attempt of another user, or with an answer id that is in no row, is
\* answered with the alert only: no test_results or user_answers row
\* changes, no question is shown and no attempt is finished.
C13_RefusedAnswerChangesNothing ==
    [][\A u \in Users, tr \in AttemptIds, qa \in AnswerInputs :
         (/\ \/ tr \notin Ids(test_results)
              \/ (tr \in Ids(test_results) /\ test_results[tr].user_id # u)
              \/ (qa[2] # NULL /\ qa[2] \notin {x.id : x \in answers})
          /\ \E d \in ElapsedOf(tr) : button_answer(u, tr, qa[1], qa[2], d))
         => /\ test_results' = test_results
            /\ user_answers' = user_answers
            /\ test_start' = test_start
            /\ test_current_question' = test_current_question
            /\ live' = live
            /\ last'.kind = "alert"
            /\ last'.shown_tr = NULL]_vars

\* an answer was just refused with the alert while attempts and
\* user_answers exist
C13_Witness ==
    /\ last.kind = "alert"
    /\ test_results # <<>>
    /\ user_answers # {}

\* ------------------------------------------------------------------------
\* C14: the row of an attempt that was finished or abandoned by a restart
\* (completed_at set, no longer among the attempts in progress) is never
\* changed again.
C14_CompletedIsFrozen ==
    [][\A id \in Ids(test_results) :
         (test_results[id].completed_at # NULL /\ id \notin live)
         => test_results'[id] = test_results[id]]_vars

\* ------------------------------------------------------------------------
\* C15: after an accepted answer or skip the handler goes on with the
\* stored question index + 1 (0 + 1 when none is stored): when that is at
\* least the number of questions of the test the attempt is finished by
\* finish_test, otherwise that question is shown and the attempt is not
\* finished: duration and best-* snapshot are left alone.
C15_Advance ==
    [][(update_count' # update_count /\ last'.upsert # "")
         => LET tr == last'.shown_tr
                current_index == IF tr \in DOMAIN test_current_question
                                 THEN test_current_question[tr] ELSE 0
                n == question_count(test_results[tr].test_id)
            IN IF current_index + 1 >= n
               THEN /\ last'.kind = "finished"
                    /\ test_results'[tr].completed_at # NULL
                    /\ tr \notin live'
                    /\ tr \notin DOMAIN test_current_question'
               ELSE /\ last'.kind = "question"
                    /\ last'.shown_index = current_index + 1
                    /\ test_current_question'[tr] = current_index + 1
                    /\ (tr \in live' <=> tr \in live)
                    /\ test_results'[tr].completed_at = test_results[tr].completed_at
                    /\ test_results'[tr].duration_seconds = test_results[tr].duration_seconds
                    /\ test_results'[tr].best_correct = test_results[tr].best_correct
                    /\ test_results'[tr].best_duration = test_results[tr].best_duration]_vars

\* an answer to the first of two questions was followed by the second
\* question, and the test is not finished
C15_Witness ==
    /\ last.upsert = "new"
    /\ last.kind = "question"
    /\ last.shown_index = 1
    /\ last.shown_tr \in live

\* ------------------------------------------------------------------------
\* the attempts the claims call completed before: the other attempts of the
\* user and test of attempt id that were finished or abandoned (finish_test
\* itself reads same_pair_others, whatever their state)
completed_others(trs, lv, id) ==
    {j \in Ids(trs) \ {id} : /\ trs[j].test_id = trs[id].test_id
                             /\ trs[j].user_id = trs[id].user_id
                             /\ trs[j].completed_at # NULL
                             /\ j \notin lv}

\* the best-* snapshot stored in a row, and the row's own counts and duration
snapshot(r) == <<r.best_correct, r.best_wrong, r.best_skipped, r.best_duration>>
own_counts(r) == <<r.correct_answers, r.wrong_answers, r.skipped_answers, r.duration_seconds>>

\* C16: when an attempt is finished, its snapshot is its own counts and
\* duration if the user has no other completed attempt of the test;
\* otherwise, with the greatest correct_answers of those attempts and the
\* least duration among the attempts that have it, the snapshot is its own
\* counts exactly when it has more correct answers, or as many in less
\* time, and else the snapshot of such a prior best attempt.
C16_BestSnapshot ==
    [][(update_count' # update_count /\ last'.kind = "finished")
         => LET tr == last'.shown_tr
                new == test_results'[tr]
                others == completed_others(test_results, live, tr)
                priorBestCorrect == SetMax({test_results[j].correct_answers : j \in others})
                achieving == {j \in others :
                                test_results[j].correct_answers = priorBestCorrect}
                priorBestDuration == SetMin({test_results[j].duration_seconds :
                                               j \in achieving})
            IN IF others = {}
               THEN snapshot(new) = own_counts(new)
               ELSE IF \/ new.correct_answers > priorBestCorrect
                       \/ (/\ new.correct_answers = priorBestCorrect
                           /\ new.duration_seconds < priorBestDuration)
               THEN snapshot(new) = own_counts(new)
               ELSE \E j \in achieving :
                      /\ test_results[j].duration_seconds = priorBestDuration
                      /\ snapshot(new) = snapshot(test_results[j])]_vars

\* ------------------------------------------------------------------------
\* C17: when an attempt is finished, its best_correct is at least the
\* best_correct of every attempt of the user and test completed before,
\* and if it ties with such an attempt on correct_answers at that best
\* (0 included), its snapshot's duration is at most either one's duration.
C17_BestMonotonic ==
    [][(update_count' # update_count /\ last'.kind = "finished")
         => LET tr == last'.shown_tr
                new == test_results'[tr]
            IN \A j \in completed_others(test_results, live, tr) :
                 /\ new.best_correct >= test_results[j].best_correct
                 /\ (/\ new.correct_answers = test_results[j].correct_answers
                     /\ new.correct_answers = new.best_correct)
                    => (/\ new.best_duration <= new.duration_seconds
                        /\ new.best_duration <= test_results[j].duration_seconds)]_vars

\* ------------------------------------------------------------------------
\* C18: the leaderboard counts of a result message are taken over the
\* completed attempts of the test, of all users, the attempts still in
\* progress left out: total is their number, better the number of them
\* with more correct answers than the finished attempt.
C18_RankingCountsCompleted ==
    [][(update_count' # update_count /\ last'.kind = "finished")
         => LET tr == last'.shown_tr
                completed == {j \in Ids(test_results') :
                                /\ test_results'[j].test_id = test_results'[tr].test_id
                                /\ test_results'[j].completed_at # NULL
                                /\ j \notin live'}
            IN /\ last'.total = Cardinality(completed)
               /\ last'.better = Cardinality({j \in completed :
                       test_results'[j].correct_answers
                         > test_results'[tr].correct_answers})]_vars

\* ------------------------------------------------------------------------
\* the cost of a test of n questions as the specification gives it
cost_by_spec(n) ==
    IF n <= 100 THEN 10000
    ELSE IF 101 <= n /\ n <= 199 THEN 15000
    ELSE IF 200 <= n /\ n <= 299 THEN 20000
    ELSE 20000 + 5000 * (CHOOSE k \in 0..n : 100 * k >= n - 300
                                              /\ 100 * (k - 1) < n - 300)

\* C19: calculate_test_cost(n) is 10000 up to 100 questions, 15000 for
\* 101..199, 20000 for 200..299 and 20000 + 5000 * ceil((n - 300) / 100)
\* from 300 on, for every n from 0 on; with the values listed for 50, 100,
\* 101, 199, 200, 300, 301, 400 and 401; and it is the cost quoted to a
\* user whose balance is short.
C19_CostFormula ==
    /\ \A n \in 0..MaxQuestions : calculate_test_cost(n) = cost_by_spec(n)
    /\ calculate_test_cost(50) = 10000 /\ calculate_test_cost(100) = 10000
    /\ calculate_test_cost(101) = 15000 /\ calculate_test_cost(199) = 15000
    /\ calculate_test_cost(200) = 20000 /\ calculate_test_cost(300) = 20000
    /\ calculate_test_cost(301) = 25000 /\ calculate_test_cost(400) = 25000
    /\ calculate_test_cost(401) = 30000
    /\ last.kind = "denied"
         => \E t \in tests : last.cost = cost_by_spec(question_count(t))

\* a test of 301 questions was refused for 25000
C19_Witness ==
    /\ question_count(1) = 301
    /\ last.kind = "denied"
    /\ last.cost = 25000

\* ------------------------------------------------------------------------
\* is_correct of the answer row with id a
correct_by_id(a) == \E x \in answers : x.id = a /\ x.is_correct

\* C20: whatever keyboards the shuffles produced and whatever position the
\* pressed button had, every user_answer with an answer id has the
\* is_correct of the answer row with that id, a skip is not correct, and the
\* correct and wrong counters of every attempt are the numbers of its
\* user_answers whose answer row, found by id, is correct or not: the
\* scores are determined by the answer ids selected.
C20_ScoringByAnswerId ==
    /\ \A x \in user_answers :
          /\ x.answer_id # NULL => x.is_correct = correct_by_id(x.answer_id)
          /\ x.answer_id = NULL => ~x.is_correct
    /\ \A id \in Ids(test_results) :
          /\ test_results[id].correct_answers =
                Cardinality({x \in rows_of(user_answers, id) :
                                x.answer_id # NULL /\ correct_by_id(x.answer_id)})
          /\ test_results[id].wrong_answers =
                Cardinality({x \in rows_of(user_answers, id) :
                                x.answer_id # NULL /\ ~correct_by_id(x.answer_id)})

\* the first answer of an attempt was just recorded as correct, and its
\* button was not at the position the answer has among the stored answers
\* of its question
C20_Witness ==
    /\ last.upsert = "new"
    /\ last.written = "correct"
    /\ last.pressed # NULL
    /\ last.shown_tr \in Ids(test_results)
    /\ Cardinality(rows_of(user_answers, last.shown_tr)) = 1
    /\ \A x \in rows_of(user_answers, last.shown_tr) :
          /\ x.is_correct
          /\ question_answers(x.question_id)[last.pressed] # x.answer_id

\* ------------------------------------------------------------------------
\* the ids of the stored answers of question q
answer_ids(q) == {x.id : x \in {y \in answers : y.question_id = q}}

\* the sequences that hold every element of S once
RECURSIVE Orderings(_)
Orderings(S) ==
    IF S = {} THEN {<<>>}
    ELSE UNION {{<<x>> \o p : p \in Orderings(S \ {x})} : x \in S}

\* the question that the question message l shows
shown_question(l) == all_questions(test_results[l.shown_tr].test_id)[l.shown_index + 1]

\* C21: the answer buttons of every question message carry each stored
\* answer of the question once and no other answer, the button at position
\* i is labelled with the i-th letter of the alphabet whatever answer_letter
\* is stored, its callback data holds the id of the answer whose text it
\* shows, and every order of the answers is one the shuffle can give.
C21_PresentIsPermutation ==
    /\ last.kind = "question" =>
          LET q == shown_question(last)
              kb == last.keyboard
          IN /\ Len(kb) = Cardinality(answer_ids(q))
             /\ \A a \in answer_ids(q) :
                   Cardinality({i \in DOMAIN kb : kb[i].answer_id = a}) = 1
             /\ \A i \in DOMAIN kb :
                   /\ kb[i].answer_id \in answer_ids(q)
                   /\ kb[i].answer_text_of = kb[i].answer_id
                   /\ kb[i].display_letter = chr_from_A[i]
    /\ \A q \in QuestionIds :
          {[i \in DOMAIN kb |-> kb[i].answer_id] :
              kb \in {keyboard(sh) : sh \in shuffles(q)}}
            = Orderings(answer_ids(q))

\* a question is shown whose first button, labelled A, carries the answer
\* stored with the letter B
C21_Witness ==
    /\ last.kind = "question"
    /\ Len(last.keyboard) = 2
    /\ last.keyboard[1].display_letter = "A"
    /\ \E x \in answers : /\ x.id = last.keyboard[1].answer_id
                           /\ x.answer_letter = "B"
                           /\ x.question_id = shown_question(last)

\* ------------------------------------------------------------------------
\* C22: the handler calls for one attempt never overlap: at most one call
\* is between its reads and its commit, and whenever all calls have
\* committed, each counter of every attempt equals the number of the
\* attempt's user_answers in its category and no attempt has two
\* user_answers for one question.
C22_UpdatesSerialized ==
    /\ Cardinality(in_progress) <= 1
    /\ in_progress = {} =>
          \A id \in Ids(test_results) :
             /\ \A c \in Categories :
                   counter(test_results[id], c) =
                      Cardinality({x \in rows_of(user_answers, id) : category(x) = c})
             /\ \A q \in QuestionIds :
                   Cardinality(existing_answers(user_answers, id, q)) <= 1

\* two answer updates for attempt 1 have been processed and committed, the
\* second one finishing the attempt
C22_Witness ==
    /\ in_progress = {}
    /\ update_count >= 2
    /\ Cardinality(rows_of(user_answers, 1)) = 2
    /\ last.kind = "finished"
    /\ last.shown_tr = 1

\* ------------------------------------------------------------------------
\* the question cursor of attempt id as user_data holds it: whether the key
\* is there, and the index read
cursor_entry(cur, id) == <<id \in DOMAIN cur, cursor(cur, id)>>

\* the update handled is one of the creation of a test: a press of
\* create_test, or a message or file sent in the conversation
creation_step ==
    last'.kind \in {"test_name", "ignored", "name_short", "test_file",
                    "file_wanted", "cancelled"}
       \/ "upload" \in DOMAIN last'

\* C23: whatever update of a session is handled (a start, continue, restart
\* or answer, with the advance or finish it leads to), the attempts whose
\* counters, completed_at, user_answers or question cursor it changes all
\* belong to one user and one test: the attempts of every other user and of
\* every other test are left as they were.  The cursors are compared over
\* the steps the process survives: a handler stopped with the process
\* leaves the rows of the other attempts alone, and user_data goes whole as
\* in process_restart.
C23_AttemptsIndependent ==
    [][(update_count' # update_count /\ ~creation_step) =>
         LET touched == {i \in Ids(test_results) :
                \/ own_counts(test_results'[i]) # own_counts(test_results[i])
                \/ test_results'[i].completed_at # test_results[i].completed_at
                \/ rows_of(user_answers', i) # rows_of(user_answers, i)
                \/ /\ last'.kind # "stopped"
                   /\ cursor_entry(test_current_question', i)
                         # cursor_entry(test_current_question, i)}
         IN \A i, j \in touched :
               /\ test_results[i].user_id = test_results[j].user_id
               /\ test_results[i].test_id = test_results[j].test_id]_vars

\* an answer has just finished an attempt while an attempt of another user
\* is at a question
C23_Witness ==
    /\ last.kind = "finished"
    /\ last.upsert = "new"
    /\ \E j \in Ids(test_results) :
          /\ test_results[j].user_id # test_results[last.shown_tr].user_id
          /\ j \in DOMAIN test_current_question

\* ------------------------------------------------------------------------
\* the questions for which attempt id has a user_answer
answered_questions(uas, id) == {x.question_id : x \in rows_of(uas, id)}

\* C24: no step takes a user_answer away from an attempt: the questions
\* for which an attempt (in progress or not) has a user_answer after a step
\* include those it had before, never with fewer rows, and a step that
\* re-answers a question leaves the number of rows and the answered
\* questions of every attempt as they were.
C24_AnswersOnlyGrow ==
    [][\A id \in Ids(test_results) :
          /\ answered_questions(user_answers, id)
                \subseteq answered_questions(user_answers', id)
          /\ Cardinality(rows_of(user_answers, id))
                <= Cardinality(rows_of(user_answers', id))
          /\ last'.upsert \in Categories =>
                /\ answered_questions(user_answers', id)
                      = answered_questions(user_answers, id)
                /\ Cardinality(rows_of(user_answers', id))
                      = Cardinality(rows_of(user_answers, id))]_vars

\* an attempt in progress has just had an answered question re-answered
\* with another answer and still has its one user_answer
C24_Witness ==
    /\ last.upsert \in Categories
    /\ last.written # last.upsert
    /\ last.shown_tr \in live
    /\ Cardinality(rows_of(user_answers, last.shown_tr)) = 1

\* ------------------------------------------------------------------------
\* C25: no step of a session (start, continue, restart, the sending of a
\* question with its shuffled and lettered buttons, an answer, a finish)
\* changes a row of tests, questions or answers: question numbers,
\* is_correct and the stored answer_letter stay as they were persisted.
C25_QuizReadOnly ==
    [][/\ tests' = tests
       /\ questions' = questions
       /\ answers' = answers]_vars

\* an attempt was started, its question was shown with the stored answers
\* in another order, it was answered and the attempt was finished, and the
\* quiz is as it was persisted
C25_Witness ==
    /\ last.kind = "finished"
    /\ last.upsert = "new"
    /\ last.pressed # NULL
    /\ \E x \in rows_of(user_answers, last.shown_tr) :
          /\ x.answer_id # NULL
          /\ question_answers(x.question_id)[last.pressed] # x.answer_id
    /\ tests = InitTests
    /\ questions = InitQuestions
    /\ answers = InitAnswers

\* ======================================================================
\* file_parser.py.  A document is the text taken from the file as
\* parse_text cuts it up: re.split breaks it at every ++++, wherever in a
\* line the four characters stand, and each section is broken at its line
\* ends; the pieces are stripped and the empty ones dropped.  The text
\* 'a++++b' is the document <<a, ++++, b>>, as is the text of the three
\* lines a, ++++ and b; '+++++' is <<++++, +>>.  A piece is described by
\* what the parser's tests see of it:
\*   kind "plus"  an occurrence of ++++ (where re.split cuts)
\*        "eq"    a line that starts with ====
\*        "dash"  a line that starts with --- or ___
\*        "num"   <digits>. <text>   (number: the digits)
\*        "bare"  <digits>. with nothing after the dot
\*        "opt"   <letter>) <text> or <letter>. <text>
\*        "plain" any other line
\*   marked  the line (for "opt": the text after the letter) starts with a
\*           correct-answer marker
\*   blank   nothing but the marker is there
\*   pos     the position of the line in the document, which stands for its
\*           text
Line(kind, number, marked, blank) ==
    [kind |-> kind, number |-> number, marked |-> marked, blank |-> blank]

\* the text of line l or a part of it: "line" the whole line, "rest" the line
\* after its marker, "question" the text after the number, "option" the
\* text after the letter, "option_rest" that text after its marker
Text(l, part) == [pos |-> l.pos, part |-> part]

\* is_correct_answer_marker(text) for a whole line
is_correct_answer_marker(l) ==
    IF l.kind = "plain" /\ l.marked
    THEN [is_correct |-> TRUE, empty |-> l.blank, text |-> Text(l, "rest")]
    ELSE [is_correct |-> FALSE, empty |-> FALSE, text |-> Text(l, "line")]

\* is_correct_answer_marker(option_text) for the text after an option letter
option_marker(l) ==
    IF l.marked
    THEN [is_correct |-> TRUE, empty |-> l.blank, text |-> Text(l, "option_rest")]
    ELSE [is_correct |-> FALSE, empty |-> FALSE, text |-> Text(l, "option")]

\* is_answer_option(line)[0]
is_answer_option(l) == l.kind = "opt"

\* line.startswith('====') or line.startswith('---') or line.startswith('___')
is_separator(l) == l.kind \in {"eq", "dash"}

\* re.match(r'^(\d+)\.\s*(.+)$', line): (.+) needs a character after the
\* dot, so a line of digits and a dot alone is no numbered question
question_match(l) == l.kind = "num"

\* re.match(r'^\d+\.', line), the test of the look-back, look-ahead and
\* question-text loops: it takes a line of digits and a dot alone as well
number_prefix(l) == l.kind \in {"num", "bare"}

\* re.split(r'\+\+\+\+', text) and the lines of each section; the sections
\* left empty are skipped
RECURSIVE test_sections(_, _, _)
test_sections(doc, i, cur) ==
    IF i > Len(doc)
    THEN IF cur = <<>> THEN <<>> ELSE <<cur>>
    ELSE IF doc[i].kind = "plus"
    THEN (IF cur = <<>> THEN <<>> ELSE <<cur>>) \o test_sections(doc, i + 1, <<>>)
    ELSE test_sections(doc, i + 1,
             Append(cur, [kind |-> doc[i].kind, number |-> doc[i].number,
                          marked |-> doc[i].marked, blank |-> doc[i].blank,
                          pos |-> i]))

\* the answers appended for an answer line
with_answer(current_answers, m) ==
    IF m.empty THEN current_answers
    ELSE Append(current_answers, [text |-> m.text, is_correct |-> m.is_correct])

\* the loop after a numbered question: the lines up to the next numbered
\* line are its answers, separators are passed over
RECURSIVE numbered_answers(_, _, _)
numbered_answers(lines, i, current_answers) ==
    IF i > Len(lines) THEN [i |-> i, answers |-> current_answers]
    ELSE IF is_separator(lines[i]) THEN numbered_answers(lines, i + 1, current_answers)
    ELSE IF question_match(lines[i]) THEN [i |-> i, answers |-> current_answers]
    ELSE numbered_answers(lines, i + 1,
             with_answer(current_answers, is_correct_answer_marker(lines[i])))

\* question_number = None: the open question has no number of its own.  The
\* value is that of no int(<digits>), 0 included.
None == -2

\* the question that is open is appended to questions; without a number it
\* takes auto_question_number, which is then increased
save_question(st) ==
    IF ~st.has_question THEN st
    ELSE [st EXCEPT
            !.questions = Append(@,
                [question_number |-> IF st.question_number = None
                                     THEN st.auto_question_number
                                     ELSE st.question_number,
                 question_text |-> st.current_question,
                 answers |-> st.current_answers]),
            !.auto_question_number = IF st.question_number = None THEN @ + 1 ELSE @]

\* the lines before option line i that are taken as the text of its
\* question: back to the nearest option line or line that starts with a
\* number and a dot, without the ==== lines
RECURSIVE look_back(_, _)
look_back(lines, j) ==
    IF j < 1 \/ is_answer_option(lines[j]) \/ number_prefix(lines[j]) THEN <<>>
    ELSE look_back(lines, j - 1)
            \o (IF lines[j].kind = "eq" THEN <<>> ELSE <<Text(lines[j], "line")>>)

\* has_future_answers: among the (at most four) lines after line i, an
\* option or ==== line comes before any line that starts with a number
\* and a dot
has_future_answers(lines, i) ==
    \E j \in (i + 1)..(IF i + 4 < Len(lines) THEN i + 4 ELSE Len(lines)) :
        /\ is_answer_option(lines[j]) \/ lines[j].kind = "eq"
        /\ \A k \in (i + 1)..(j - 1) : ~number_prefix(lines[k])

\* the end of the question text that starts at line i: the first line
\* after i that is an option, a ==== line or a line that starts with a
\* number and a dot
RECURSIVE question_end(_, _)
question_end(lines, j) ==
    IF j > Len(lines) \/ is_answer_option(lines[j]) \/ lines[j].kind = "eq"
       \/ number_prefix(lines[j])
    THEN j
    ELSE question_end(lines, j + 1)

\* the while loop of parse_text over the lines of one section, from the
\* state st (st.i is the line index, the first line is 1)
RECURSIVE parse_lines(_, _)
parse_lines(lines, st) ==
    IF st.i > Len(lines) THEN st
    ELSE
    LET line == lines[st.i]
        next == [st EXCEPT !.i = @ + 1]
    IN
    IF is_separator(line)
    THEN parse_lines(lines, [next EXCEPT !.in_answer_section = TRUE])
    ELSE IF question_match(line)
    THEN LET saved == save_question(st)
             na == numbered_answers(lines, st.i + 1, <<>>)
         IN parse_lines(lines,
                [saved EXCEPT !.has_question = TRUE,
                              !.question_number = line.number,
                              !.current_question = <<Text(line, "question")>>,
                              !.current_answers = na.answers,
                              !.in_answer_section = FALSE,
                              !.i = na.i])
    ELSE IF is_answer_option(line)
    THEN LET question_lines == IF st.has_question THEN <<>>
                               ELSE look_back(lines, st.i - 1)
             opened == IF ~st.has_question /\ question_lines # <<>>
                       THEN [next EXCEPT !.has_question = TRUE,
                                         !.current_question = question_lines,
                                         !.question_number = None,
                                         !.current_answers = <<>>]
                       ELSE next
         IN parse_lines(lines,
                [opened EXCEPT !.current_answers = with_answer(@, option_marker(line))])
    ELSE IF st.in_answer_section /\ st.has_question
    THEN parse_lines(lines,
             [next EXCEPT !.current_answers =
                             with_answer(@, is_correct_answer_marker(line))])
    ELSE IF ~st.has_question /\ has_future_answers(lines, st.i)
    THEN LET j == question_end(lines, st.i + 1)
         IN parse_lines(lines,
                [st EXCEPT !.has_question = TRUE,
                           !.current_question =
                               [k \in 1..(j - st.i) |-> Text(lines[st.i + k - 1], "line")],
                           !.question_number = None,
                           !.current_answers = <<>>,
                           !.i = j])
    ELSE parse_lines(lines, next)

\* the questions of one section: the loop, then the last question is
\* saved
section_questions(lines) ==
    save_question(parse_lines(lines,
        [i |-> 1, has_question |-> FALSE, current_question |-> <<>>,
         current_answers |-> <<>>, question_number |-> None,
         auto_question_number |-> 1, in_answer_section |-> FALSE,
         questions |-> <<>>])).questions

\* tests[:1]: only the first section that has a question gives a test
tests_first(sections) ==
    LET with_questions == {k \in DOMAIN sections :
                              section_questions(sections[k]) # <<>>}
    IN IF with_questions = {} THEN <<>>
       ELSE <<[questions |-> section_questions(sections[SetMin(with_questions)])]>>

\* parse_text(text, return_all=True): one test for every section that has
\* a question
RECURSIVE tests_of(_)
tests_of(sections) ==
    IF sections = <<>> THEN <<>>
    ELSE LET qs == section_questions(Head(sections))
         IN (IF qs = <<>> THEN <<>> ELSE <<[questions |-> qs]>>)
               \o tests_of(Tail(sections))

parse_text(doc) == tests_of(test_sections(doc, 1, <<>>))

\* ------------------------------------------------- validation of a test
\* sum(1 for a in answers if a.get('is_correct'))
correct_count(ans) ==
    Cardinality({i \in DOMAIN ans : ans[i].is_correct})

one_correct_or_more(ans) == correct_count(ans) >= 1

\* correct_count != 1 is what validate_parsed_test rejects
one_correct(ans) == correct_count(ans) = 1

\* the check validate_parsed_test makes of one question, in its order:
\* the text, then the number of answers, then the number of correct ones
question_failure(q) ==
    IF q.question_text = <<>> THEN "savol matni topilmadi"
    ELSE IF Len(q.answers) < 2 THEN "kamida 2 ta javob kerak"
    ELSE IF ~one_correct(q.answers) THEN "bitta to'g'ri javob belgilanishi kerak"
    ELSE ""

\* the for loop of validate_parsed_test from question i on: the first
\* question that fails ends it
RECURSIVE validate_from(_, _)
validate_from(qs, i) ==
    IF i > Len(qs)
    THEN [is_valid |-> TRUE, message |-> "Test muvaffaqiyatli yuklandi!", i |-> NULL]
    ELSE IF question_failure(qs[i]) # ""
    THEN [is_valid |-> FALSE, message |-> question_failure(qs[i]), i |-> i]
    ELSE validate_from(qs, i + 1)

\* validate_parsed_test(parsed_test); a parsed test is a record with the
\* field questions, and <<>> stands for one without it
validate_parsed_test(parsed_test) ==
    IF "questions" \notin DOMAIN parsed_test
    THEN [is_valid |-> FALSE, message |-> "Test savollar topilmadi", i |-> NULL]
    ELSE IF Len(parsed_test.questions) = 0
    THEN [is_valid |-> FALSE, message |-> "Testda savollar topilmadi", i |-> NULL]
    ELSE validate_from(parsed_test.questions, 1)

\* ------------------------------------------------- ingestion of a file
\* the parsed tests receive_test_file keeps: those that validate
kept_tests_salvaged(parsed_tests) ==
    [k \in DOMAIN parsed_tests |->
        [questions |-> SelectSeq(parsed_tests[k].questions,
                                 LAMBDA q : question_failure(q) = "")]]

kept_tests(parsed_tests) ==
    SelectSeq(parsed_tests, LAMBDA t : validate_parsed_test(t).is_valid)

\* all_questions.extend(parsed_test['questions']) for every kept test
RECURSIVE extend_all(_)
extend_all(ts) ==
    IF ts = <<>> THEN <<>> ELSE Head(ts).questions \o extend_all(Tail(ts))

\* list.sort(key=question_number): a stable sort, ascending
RECURSIVE sort_ties_reversed(_)
sort_ties_reversed(qs) ==
    IF qs = <<>> THEN <<>>
    ELSE LET m == SetMin({qs[i].question_number : i \in DOMAIN qs})
             k == SetMax({i \in DOMAIN qs : qs[i].question_number = m})
         IN <<qs[k]>> \o sort_ties_reversed(SubSeq(qs, 1, k - 1) \o SubSeq(qs, k + 1, Len(qs)))

RECURSIVE sort_by_question_number(_)
sort_by_question_number(qs) ==
    IF qs = <<>> THEN <<>>
    ELSE LET m == SetMin({qs[i].question_number : i \in DOMAIN qs})
             k == SetMin({i \in DOMAIN qs : qs[i].question_number = m})
         IN <<qs[k]>> \o sort_by_question_number(SubSeq(qs, 1, k - 1) \o SubSeq(qs, k + 1, Len(qs)))

\* the letters receive_test_file stores with the answers of a question
file_letters == <<"A", "B", "C", "D", "E", "F">>
answer_letter(idx) ==
    IF idx <= Len(file_letters) THEN file_letters[idx] ELSE chr_from_A[idx]

\* the id an insert into a table gets
next_id(rows) == IF rows = {} THEN 1 ELSE SetMax({r.id : r \in rows}) + 1

\* the rows the loop over all_questions adds for test t: a question row for
\* every question and an answer row for every answer of it, flushed in
\* this order
RECURSIVE created_rows(_, _, _)
created_rows(qs, t, rows) ==
    IF qs = <<>> THEN rows
    ELSE LET q_data == Head(qs)
             qid == next_id(rows.questions)
             aid == next_id(rows.answers)
         IN created_rows(Tail(qs), t,
              [questions |-> rows.questions \cup
                  {[id |-> qid, test_id |-> t,
                    question_number |-> q_data.question_number,
                    question_text |-> q_data.question_text]},
               answers |-> rows.answers \cup
                  {[id |-> aid + idx - 1, question_id |-> qid,
                    answer_text |-> q_data.answers[idx].text,
                    is_correct |-> q_data.answers[idx].is_correct,
                    answer_letter |-> answer_letter(idx)] :
                       idx \in DOMAIN q_data.answers}])

\* what the handler did with the file: kind is the message it ended with,
\* upload the lines of the file, test_id the test it created
Uploaded(kind, doc, t, total_questions) ==
    [ upload |-> doc, test_id |-> t, total_questions |-> total_questions ]
    @@ Last(kind, NULL, NULL,
            IF t = NULL THEN NULL ELSE calculate_test_cost(total_questions),
            "", "")

\* context.user_data.clear() of user u
user_data_clear(u) ==
    /\ test_start' = {k \in test_start : test_results[k].user_id # u}
    /\ test_current_question' =
          [k \in {k \in DOMAIN test_current_question :
                     test_results[k].user_id # u} |-> test_current_question[k]]

no_questions_never(qs) == FALSE

\* len(all_questions) == 0
no_questions(qs) == Len(qs) = 0

\* receive_test_file for the file with the lines doc, sent by user u: the
\* conversation handler calls it when u is waiting for the file, and every
\* way out of it past the download ends the conversation
receive_test_file(u, doc) ==
    LET parsed_tests == parse_text(doc)
        all_questions_of_file ==
            sort_by_question_number(extend_all(kept_tests(parsed_tests)))
        t == next_id({[id |-> i] : i \in tests})
        rows == created_rows(all_questions_of_file, t,
                             [questions |-> questions, answers |-> answers])
    IN /\ conversation[u] = WAITING_FOR_TEST_FILE
       /\ conversation' = [conversation EXCEPT ![u] = END]
       /\ users' = get_or_create_user(users, u)
       /\ user_data_clear(u)
       /\ UNCHANGED <<test_access, test_results, user_answers, payments, live>>
       /\ IF Len(parsed_tests) = 0
          THEN /\ last' = Uploaded("Test fayli to'g'ri formatda emas", doc, NULL, NULL)
               /\ UNCHANGED <<tests, questions, answers>>
          ELSE IF no_questions(extend_all(kept_tests(parsed_tests)))
          THEN /\ last' = Uploaded("Hech qanday to'g'ri test topilmadi", doc, NULL, NULL)
               /\ UNCHANGED <<tests, questions, answers>>
          ELSE /\ tests' = tests \cup {t}
               /\ questions' = rows.questions
               /\ answers' = rows.answers
               /\ last' = Uploaded("Test muvaffaqiyatli yaratildi!", doc, t,
                                   Len(all_questions_of_file))

\* The files sent: every line is a block marker, a numbered line or a
\* plain line with or without a marker (in these files, which have no
\* option and no ==== line, a line of digits and a dot alone is read as
\* any plain line without a marker). Files whose numbered lines all
\* have the number 1 have up to MaxLines lines, files that use the numbers
\* 1 and 2 up to MaxLines - 1.
MaxLines == 8
LineShapes(numbers) ==
    { Line("plus", NULL, FALSE, FALSE),
      Line("plain", NULL, FALSE, FALSE), Line("plain", NULL, TRUE, FALSE) }
    \cup { Line("num", k, FALSE, FALSE) : k \in numbers }
Documents ==
    UNION {[1..n -> LineShapes({1})] : n \in 0..MaxLines}
    \cup UNION {[1..n -> LineShapes({1, 2})] : n \in 0..(MaxLines - 1)}

\* The bot before any test was created; users 1 and 2 are registered, and
\* user 1 has pressed create_test and sent the name of a test.
InitIngest ==
    /\ tests = {}
    /\ questions = {}
    /\ answers = {}
    /\ users = (1 :> 0) @@ (2 :> 0)
    /\ test_access = <<>>
    /\ test_results = <<>>
    /\ user_answers = {}
    /\ payments = <<>>
    /\ test_start = {}
    /\ test_current_question = <<>>
    /\ update_count = 0
    /\ in_progress = {}
    /\ conversation = (1 :> WAITING_FOR_TEST_FILE) @@ (2 :> END)
    /\ live = {}
    /\ last = Last("none", NULL, NULL, NULL, "", "")

NextIngest ==
    /\ update_count < 1
    /\ update_count' = update_count + 1
    /\ UNCHANGED in_progress
    /\ \E doc \in Documents : receive_test_file(1, doc)

SpecIngest == InitIngest /\ [][NextIngest]_vars

\* ------------------------------------------- the test-creation conversation
\* handle_create_test, the entry point of the conversation: user u presses
\* create_test.  The conversation handler takes the press only of a user
\* who is in no conversation; any other press of it reaches button_handler,
\* which returns at once.
handle_create_test(u) ==
    /\ IF conversation[u] = END
       THEN /\ users' = get_or_create_user(users, u)
            /\ conversation' = [conversation EXCEPT ![u] = WAITING_FOR_TEST_NAME]
            /\ last' = Last("test_name", NULL, NULL, NULL, "", "")
       ELSE /\ UNCHANGED <<users, conversation>>
            /\ last' = Last("ignored", NULL, NULL, NULL, "", "")
    /\ UNCHANGED <<Quiz, test_access, test_results, user_answers, payments,
                   test_start, test_current_question, live>>

\* the texts of the buttons that cancel the creation; "left" stands for
\* the characters U+2B05 U+FE0F
CancelTexts ==
    { <<"left", " ", "B", "e", "k", "o", "r", " ", "q", "i", "l", "i", "s", "h">>,
      <<"left", " ", "O", "r", "q", "a", "g", "a">> }

\* the cancel branch of receive_test_name and receive_test_file:
\* context.user_data.clear(), the menu of start, ConversationHandler.END
cancel_creation(u) ==
    /\ user_data_clear(u)
    /\ users' = get_or_create_user(users, u)
    /\ conversation' = [conversation EXCEPT ![u] = END]
    /\ last' = Last("cancelled", NULL, NULL, NULL, "", "")
    /\ UNCHANGED <<Quiz, test_access, test_results, user_answers, payments, live>>

\* receive_test_name: user u, who was asked for the name of the test,
\* sends the text message text.  The name is kept in user_data['test_name'],
\* which the model does not follow.
receive_test_name(u, text) ==
    /\ conversation[u] = WAITING_FOR_TEST_NAME
    /\ IF text \in CancelTexts
       THEN cancel_creation(u)
       ELSE /\ IF Len(strip(text)) < 3
               THEN /\ last' = Last("name_short", NULL, NULL, NULL, "", "")
                    /\ UNCHANGED conversation
               ELSE /\ last' = Last("test_file", NULL, NULL, NULL, "", "")
                    /\ conversation' =
                          [conversation EXCEPT ![u] = WAITING_FOR_TEST_FILE]
            /\ UNCHANGED <<Quiz, users, test_access, test_results, user_answers,
                           payments, test_start, test_current_question, live>>

\* receive_test_file for a message of user u that is a text and no file
receive_test_file_text(u, text) ==
    /\ conversation[u] = WAITING_FOR_TEST_FILE
    /\ IF text \in CancelTexts
       THEN cancel_creation(u)
       ELSE /\ users' = get_or_create_user(users, u)
            /\ last' = Last("file_wanted", NULL, NULL, NULL, "", "")
            /\ UNCHANGED <<Quiz, test_access, test_results, user_answers,
                           payments, test_start, test_current_question, live,
                           conversation>>

\* The text messages sent during the creation of a test: the two cancel
\* texts, a name of two characters between spaces and one of four.
MessageTexts ==
    CancelTexts \cup { <<" ", "a", "b", " ">>, <<"T", "e", "s", "t">> }

\* The files sent during a test session: an empty one.
SessionDocuments == { <<>> }

\* an update of the creation of a test
creation_update ==
    \/ \E u \in Users : handle_create_test(u)
    \/ \E u \in Users, text \in MessageTexts : receive_test_name(u, text)
    \/ \E u \in Users, text \in MessageTexts : receive_test_file_text(u, text)
    \/ \E u \in Users, doc \in SessionDocuments : receive_test_file(u, doc)

\* One update is taken and handled, to completion or until the process is
\* stopped.  From the empty database
\* two more updates are allowed than in a session: the top-up and its
\* verification.
Next ==
    \/ /\ update_count < MaxUpdates + 2
       /\ update_count' = update_count + 1
       /\ UNCHANGED in_progress
       /\ \/ /\ UNCHANGED conversation
             /\ (session_update(TestIds \cup {NULL}) \/ payment_update)
          \/ stopped_update
          \/ creation_update
    \/ /\ process_restart
       /\ UNCHANGED <<update_count, in_progress>>

Spec == Init /\ [][Next]_vars

\* The updates of the sessions that begin in InitSession or InitResume.
NextSession ==
    \/ /\ update_count < MaxUpdates
       /\ update_count' = update_count + 1
       /\ UNCHANGED in_progress
       /\ \/ /\ UNCHANGED conversation
             /\ session_update(TestIds)
          \/ stopped_update
          \/ creation_update
    \/ /\ process_restart
       /\ UNCHANGED <<update_count, in_progress>>

SpecSession == InitSession /\ [][NextSession]_vars

SpecResume == InitResume /\ [][NextSession]_vars


\* ------------------------------------------------- claims on ingestion
\* the handler that ran last was receive_test_file
uploaded == "upload" \in DOMAIN last

\* the numbered lines of a file
numbered_lines(doc) == {i \in DOMAIN doc : doc[i].kind = "num"}

\* the line that a plain line i belongs to: the nearest block marker,
\* numbered line or option line before it, 0 when there is none
owner(doc, i) ==
    LET before == {j \in 1..(i - 1) : doc[j].kind \in {"plus", "num", "opt"}}
    IN IF before = {} THEN 0 ELSE SetMax(before)

answer_lines(doc, j) ==
    {i \in DOMAIN doc : doc[i].kind = "plain" /\ owner(doc, i) = j}

\* A file in the delimited-numbered format that is valid: blocks between
\* ++++ lines, in a block numbered questions only, every one followed by
\* two or more answer lines with a text, exactly one of them marked.
valid_delimited_numbered(doc) ==
    /\ \A i \in DOMAIN doc : doc[i].kind \in {"plus", "num", "plain", "eq"}
    /\ \A i \in DOMAIN doc : doc[i].kind = "plain" =>
          /\ owner(doc, i) # 0
          /\ doc[owner(doc, i)].kind = "num"
          /\ ~doc[i].blank
    /\ \A j \in numbered_lines(doc) :
          /\ Cardinality(answer_lines(doc, j)) >= 2
          /\ Cardinality({i \in answer_lines(doc, j) : doc[i].marked}) = 1
    /\ numbered_lines(doc) # {}

\* the rows of the test that receive_test_file created
created_questions == {q \in questions : q.test_id = last.test_id}
answers_of(q) == {a \in answers : a.question_id = q.id}

\* C26: for a valid file in the delimited-numbered format, parsing,
\* validation and assembly give a test with as many questions as the file
\* has numbered lines, and every question stored has at least 2 answers
\* of which exactly one is correct.
C26_ValidInputYieldsQuiz ==
    (uploaded /\ valid_delimited_numbered(last.upload)) =>
        /\ last.test_id # NULL
        /\ last.test_id \in tests
        /\ Cardinality(created_questions) = Cardinality(numbered_lines(last.upload))
        /\ last.total_questions = Cardinality(numbered_lines(last.upload))
        /\ \A q \in created_questions :
              /\ Cardinality(answers_of(q)) >= 2
              /\ Cardinality({a \in answers_of(q) : a.is_correct}) = 1

\* a valid file of two blocks with a question each was stored
C26_Witness ==
    /\ uploaded
    /\ valid_delimited_numbered(last.upload)
    /\ \E i \in DOMAIN last.upload : last.upload[i].kind = "plus"
    /\ Cardinality(created_questions) = 2
    /\ \E q \in created_questions : Cardinality(answers_of(q)) = 3

\* ------------------------------------------------- validation on its own
\* The parsed tests given to validate_parsed_test: a dict without the key
\* questions (<<>>), or up to MaxBlockQuestions questions, each with or
\* without a text and with up to MaxBlockAnswers answers, any of them
\* correct.
MaxBlockQuestions == 2
MaxBlockAnswers == 3
ParsedAnswers ==
    UNION {[1..n -> {[text |-> Text([pos |-> 1], "line"), is_correct |-> c] :
                        c \in BOOLEAN}] : n \in 0..MaxBlockAnswers}
ParsedQuestions ==
    {[question_number |-> 1, question_text |-> t, answers |-> a] :
        t \in {<<>>, <<Text([pos |-> 1], "question")>>}, a \in ParsedAnswers}
ParsedTests ==
    {<<>>} \cup {[questions |-> qs] :
                    qs \in UNION {[1..n -> ParsedQuestions] : n \in 0..MaxBlockQuestions}}

\* what was validated last and what validate_parsed_test returned
Validated(parsed_test, r) ==
    [kind |-> "validated", parsed_test |-> parsed_test,
     is_valid |-> r.is_valid, message |-> r.message, i |-> r.i]

InitValidate ==
    /\ InitIngest

validate(parsed_test) ==
    /\ last' = Validated(parsed_test, validate_parsed_test(parsed_test))
    /\ UNCHANGED <<tests, questions, answers, users, test_access, test_results,
                   user_answers, payments, test_start, test_current_question,
                   live>>

NextValidate ==
    /\ update_count < 1
    /\ update_count' = update_count + 1
    /\ UNCHANGED <<in_progress, conversation>>
    /\ \E parsed_test \in ParsedTests : validate(parsed_test)

SpecValidate == InitValidate /\ [][NextValidate]_vars

validated == last.kind = "validated"

\* a question with a text, two or more answers and one correct answer
well_formed(q) ==
    /\ q.question_text # <<>>
    /\ Len(q.answers) >= 2
    /\ Cardinality({k \in DOMAIN q.answers : q.answers[k].is_correct}) = 1

\* the questions of a parsed test that are not well formed
failing(parsed_test) ==
    {k \in DOMAIN parsed_test.questions : ~well_formed(parsed_test.questions[k])}

\* C27: validation succeeds exactly when the block has a question and
\* every question has a text, at least 2 answers and exactly one answer
\* marked correct; when a question fails, the reason returned is that of
\* the first such question: its missing text, else its too few answers,
\* else its number of correct answers.
C27_ValidateFirstFailure ==
    validated =>
        LET t == last.parsed_test
            has_questions == "questions" \in DOMAIN t /\ Len(t.questions) >= 1
        IN /\ last.is_valid <=> (has_questions /\ failing(t) = {})
           /\ (has_questions /\ failing(t) # {}) =>
                 LET k == SetMin(failing(t))
                     q == t.questions[k]
                 IN /\ last.i = k
                    /\ q.question_text = <<>>
                          => last.message = "savol matni topilmadi"
                    /\ (q.question_text # <<>> /\ Len(q.answers) < 2)
                          => last.message = "kamida 2 ta javob kerak"
                    /\ (q.question_text # <<>> /\ Len(q.answers) >= 2)
                          => last.message = "bitta to'g'ri javob belgilanishi kerak"

\* a test was rejected for its second question, which has two correct
\* answers, after a first question that is well formed
C27_Witness ==
    /\ validated
    /\ ~last.is_valid
    /\ last.i = 2
    /\ well_formed(last.parsed_test.questions[1])
    /\ Cardinality({k \in DOMAIN last.parsed_test.questions[2].answers :
                       last.parsed_test.questions[2].answers[k].is_correct}) = 2
    /\ last.message = "bitta to'g'ri javob belgilanishi kerak"

\* ------------------------------------------------- claims on assembly
\* the parsed question pq was stored with the test created
stored(pq) ==
    \E q \in created_questions :
        /\ q.question_text = pq.question_text
        /\ q.question_number = pq.question_number
        /\ Cardinality(answers_of(q)) = Len(pq.answers)

\* a question with the text of pq was stored
salvaged(pq) ==
    \E q \in created_questions : q.question_text = pq.question_text

\* the blocks of the file sent, as parsed
blocks == parse_text(last.upload)
invalid_block(k) == failing(blocks[k]) # {}

\* C28: a block with a question that fails validation is dropped whole,
\* its well-formed questions too: none of its questions is in the test
\* created, while every question of every valid block of the file is.
C28_InvalidBlockDropped ==
    uploaded =>
        LET parsed == blocks
        IN \A k \in DOMAIN parsed :
              LET dropped == failing(parsed[k]) # {}
              IN \A i \in DOMAIN parsed[k].questions :
                    IF dropped
                    THEN ~salvaged(parsed[k].questions[i])
                    ELSE stored(parsed[k].questions[i])

\* a file was stored that has a valid block and an invalid block with a
\* well-formed question in it
C28_Witness ==
    /\ uploaded
    /\ last.test_id # NULL
    /\ \E k \in DOMAIN blocks :
          /\ invalid_block(k)
          /\ \E i \in DOMAIN blocks[k].questions : well_formed(blocks[k].questions[i])
    /\ \E k \in DOMAIN blocks : ~invalid_block(k)

\* the questions of the valid blocks of parsed, as <<block, index>>
valid_questions(parsed) ==
    {<<k, i>> \in (DOMAIN parsed) \X (1..MaxLines) :
        /\ failing(parsed[k]) = {}
        /\ i \in DOMAIN parsed[k].questions}

\* block order, then the order in the block
before(a, b) == a[1] < b[1] \/ (a[1] = b[1] /\ a[2] < b[2])

\* the row stored for the parsed question pq
row_of(pq) == CHOOSE q \in created_questions : q.question_text = pq.question_text

\* C29: the test created holds the questions of all valid blocks, each
\* once and with its number from the file, in ascending order of the
\* numbers; questions with the same number are in block order and, in a
\* block, in their order there.
C29_AssembleStableSort ==
    uploaded =>
        LET parsed == blocks
            valid == valid_questions(parsed)
        IN /\ \A a \in valid : stored(parsed[a[1]].questions[a[2]])
           /\ Cardinality(created_questions) = Cardinality(valid)
           /\ \A a, b \in valid :
                 LET pa == parsed[a[1]].questions[a[2]]
                     pb == parsed[b[1]].questions[b[2]]
                 IN row_of(pa).id < row_of(pb).id <=>
                       \/ pa.question_number < pb.question_number
                       \/ /\ pa.question_number = pb.question_number
                          /\ before(a, b)

\* a test was created from two blocks that both have a question with the
\* same number
C29_Witness ==
    /\ uploaded
    /\ \E a, b \in valid_questions(blocks) :
          /\ a[1] < b[1]
          /\ blocks[a[1]].questions[a[2]].question_number
                = blocks[b[1]].questions[b[2]].question_number
          /\ row_of(blocks[a[1]].questions[a[2]]).id
                < row_of(blocks[b[1]].questions[b[2]]).id

\* ------------------------------------------------- claims on failure
\* the two messages receive_test_file ends with when it creates nothing
failure_messages ==
    {"Test fayli to'g'ri formatda emas", "Hech qanday to'g'ri test topilmadi"}

\* C30: when the parser finds no block in the file, or no block of it
\* validates, receive_test_file ends with a failure message and the
\* tables of tests, questions and answers, empty before, stay empty; a
\* test in the table has at least one question.
C30_NoQuizWithoutQuestions ==
    /\ uploaded =>
          LET parsed == blocks
          IN /\ valid_questions(parsed) = {} =>
                   /\ last.kind \in failure_messages
                   /\ last.test_id = NULL
                   /\ tests = {} /\ questions = {} /\ answers = {}
             /\ parsed = <<>> => last.kind = "Test fayli to'g'ri formatda emas"
    /\ \A t \in tests :
          /\ uploaded /\ t = last.test_id
          /\ \E q \in questions : q.test_id = t
          /\ last.total_questions >= 1

\* a file with blocks, none of them valid, was refused
C30_Witness ==
    /\ uploaded
    /\ blocks # <<>>
    /\ valid_questions(blocks) = {}
    /\ last.kind = "Hech qanday to'g'ri test topilmadi"
    /\ tests = {}

\* ------------------------------------------------- claims on the parser
\* the numbers of the questions qs are all different
distinct_numbers(qs) ==
    \A i, j \in DOMAIN qs :
        i # j => qs[i].question_number # qs[j].question_number

\* C31: a question with a number in the file keeps it, no two questions
\* of one block have the same number, and the numbers of the questions of
\* the test created are all different.
C31_QuestionNumbersUnique ==
    uploaded =>
        LET parsed == blocks
        IN /\ \A k \in DOMAIN parsed :
                 /\ distinct_numbers(parsed[k].questions)
                 /\ \A i \in DOMAIN parsed[k].questions :
                       LET pq == parsed[k].questions[i]
                           line == last.upload[pq.question_text[1].pos]
                       IN line.kind = "num" => pq.question_number = line.number
           /\ \A q1, q2 \in created_questions :
                 q1.id # q2.id => q1.question_number # q2.question_number

\* ------------------------------------------------- the marker of an answer
\* In the texts of answers "check", "root", "arrow", "check_button" and
\* "heavy_check" stand for the characters U+2713, U+221A, U+2192, U+2705
\* and U+2714.
startswith(text, marker) ==
    Len(marker) <= Len(text) /\ SubSeq(text, 1, Len(marker)) = marker

\* the list markers of is_correct_answer_marker, in its order
markers ==
    << <<"#">>, <<"*">>, <<"check">>, <<"root">>, <<"+">>, <<"arrow">>,
       <<"arrow", "arrow">>, <<">", ">">>, <<"check_button">>, <<"heavy_check">> >>

\* the for loop of is_correct_answer_marker from marker k on: the first
\* marker of the list that the text starts with is cut off
RECURSIVE marker_from(_, _)
marker_from(text_stripped, k) ==
    IF k > Len(markers)
    THEN [is_correct |-> FALSE, text |-> text_stripped]
    ELSE IF startswith(text_stripped, markers[k])
    THEN [is_correct |-> TRUE,
          text |-> strip(SubSeq(text_stripped, Len(markers[k]) + 1,
                                Len(text_stripped)))]
    ELSE marker_from(text_stripped, k + 1)

\* is_correct_answer_marker(text) for a text given by its characters
correct_answer_marker(text) == marker_from(strip(text), 1)

\* The answer lines read: up to MaxChars characters, each a marker
\* character, a space or a letter.
MaxChars == 4
Characters == {"#", "arrow", ">", " ", "a"}
AnswerTexts == UNION {[1..n -> Characters] : n \in 0..MaxChars}

\* what was read from an answer line: answer_line the line, appended
\* whether an answer was appended to current_answers
AnswerRead(answer_line, m) ==
    [kind |-> "answer", answer_line |-> answer_line,
     is_correct |-> m.is_correct, text |-> m.text,
     appended |-> m.text # <<>>]

\* one pass of the loop over the lines after a numbered question, for a
\* line that is no separator and no numbered line
read_answer(answer_line) ==
    /\ last' = AnswerRead(answer_line, correct_answer_marker(answer_line))
    /\ UNCHANGED <<tests, questions, answers, users, test_access, test_results,
                   user_answers, payments, test_start, test_current_question,
                   live>>

NextMarker ==
    /\ update_count < 1
    /\ update_count' = update_count + 1
    /\ UNCHANGED <<in_progress, conversation>>
    /\ \E answer_line \in AnswerTexts : read_answer(answer_line)

SpecMarker == InitIngest /\ [][NextMarker]_vars

\* the markers that the text starts with
applicable(text) == {k \in DOMAIN markers : startswith(text, markers[k])}

\* the longest of them
longest(text) ==
    CHOOSE k \in applicable(text) :
        \A j \in applicable(text) : Len(markers[j]) <= Len(markers[k])

\* C32: an answer line is correct exactly when, trimmed, it starts with a
\* marker; its text is then what follows the longest marker it starts
\* with, trimmed, and otherwise the trimmed line; an answer with an empty
\* text is not added.
C32_LongestMarkerStripped ==
    last.kind = "answer" =>
        LET t == strip(last.answer_line)
        IN /\ last.is_correct <=> applicable(t) # {}
           /\ last.text = IF applicable(t) = {} THEN t
                          ELSE strip(SubSeq(t, Len(markers[longest(t)]) + 1, Len(t)))
           /\ last.appended <=> last.text # <<>>

\* ------------------------------------------------- the parser on its own
\* int(question_match.group(1)) fails with ValueError on the Python
\* versions that limit the digits of an integer string (4300 by default);
\* TooLong is the number of a numbered line with more digits than that.
TooLong == -1

\* The texts given to parse_text: up to MaxParseLines - 2 lines of any
\* shape, or up to MaxParseLines plain, digits-and-dot, option and ====
\* lines.
MaxParseLines == 6
AllShapes ==
    { Line("plus", NULL, FALSE, FALSE), Line("eq", NULL, FALSE, FALSE),
      Line("dash", NULL, FALSE, FALSE),
      Line("num", 1, FALSE, FALSE), Line("num", TooLong, FALSE, FALSE),
      Line("bare", NULL, FALSE, FALSE),
      Line("opt", NULL, FALSE, FALSE), Line("opt", NULL, TRUE, FALSE),
      Line("opt", NULL, TRUE, TRUE),
      Line("plain", NULL, FALSE, FALSE), Line("plain", NULL, TRUE, FALSE),
      Line("plain", NULL, TRUE, TRUE) }
UnnumberedShapes ==
    { Line("eq", NULL, FALSE, FALSE), Line("bare", NULL, FALSE, FALSE),
      Line("opt", NULL, FALSE, FALSE), Line("opt", NULL, TRUE, FALSE),
      Line("plain", NULL, FALSE, FALSE), Line("plain", NULL, TRUE, FALSE) }
ParseDocuments ==
    UNION {[1..n -> AllShapes] : n \in 0..(MaxParseLines - 2)}
    \cup UNION {[1..n -> UnnumberedShapes] : n \in 0..MaxParseLines}

\* the numbered lines whose number int() is asked to convert: the loop
\* reaches every numbered line of every section
converted(doc) == {i \in DOMAIN doc : doc[i].kind = "num"}

\* what parse_text did with the text doc: the tests it returned, or the
\* exception it raised
Parsed(doc, raised) ==
    [kind |-> IF raised THEN "ValueError" ELSE "parsed", text |-> doc,
     tests |-> IF raised THEN <<>> ELSE parse_text(doc)]

\* parse_text(text, return_all=True); digits_limited tells whether the
\* Python that runs it limits the digits of integer strings
parse(doc, digits_limited) ==
    /\ last' = Parsed(doc, digits_limited
                           /\ \E i \in converted(doc) : doc[i].number = TooLong)
    /\ UNCHANGED <<tests, questions, answers, users, test_access, test_results,
                   user_answers, payments, test_start, test_current_question,
                   live>>

NextParse ==
    /\ update_count < 1
    /\ update_count' = update_count + 1
    /\ UNCHANGED <<in_progress, conversation>>
    /\ \E doc \in ParseDocuments, digits_limited \in BOOLEAN :
          parse(doc, digits_limited)

SpecParse == InitIngest /\ [][NextParse]_vars

parsed_text == last.kind = "parsed"

\* A text in the lettered-options format: groups of one or more plain
\* lines followed by one or more option lines.
lettered(doc) ==
    /\ doc # <<>>
    /\ \A i \in DOMAIN doc : doc[i].kind \in {"plain", "opt"} /\ ~doc[i].blank
    /\ doc[1].kind = "plain"
    /\ doc[Len(doc)].kind = "opt"

\* the lines that start a group
group_starts(doc) ==
    {i \in DOMAIN doc : doc[i].kind = "plain" /\ (i = 1 \/ doc[i - 1].kind = "opt")}

\* the first line of the group that line i is in
group_of(doc, i) == SetMax({j \in group_starts(doc) : j <= i})

\* C33: in a text of groups of plain lines followed by lettered options,
\* the parser gives one question per group; every option is an answer of
\* the question made of the plain lines of its own group.
C33_OneQuestionPerOptionGroup ==
    (parsed_text /\ lettered(last.text)) =>
        /\ Len(last.tests) = 1
        /\ LET qs == last.tests[1].questions
           IN /\ Len(qs) = Cardinality(group_starts(last.text))
              /\ \A k \in DOMAIN qs :
                    /\ qs[k].question_text[1].pos \in group_starts(last.text)
                    /\ \A a \in DOMAIN qs[k].answers :
                          group_of(last.text, qs[k].answers[a].text.pos)
                             = qs[k].question_text[1].pos

\* a plain line as the claims have it: no block marker, no separator, no
\* option and no numbered question line <integer>. <text>; a line of
\* digits and a dot alone is one
plain_line(l) == l.kind \in {"plain", "bare"}

\* A text without numbered question lines, block markers and dash lines: plain
\* lines, option lines and ==== lines, all with a text.
unnumbered(doc) ==
    \A i \in DOMAIN doc :
        (plain_line(doc[i]) \/ doc[i].kind \in {"opt", "eq"}) /\ ~doc[i].blank

\* an option line or a ==== line is among the four lines after line i
followed(doc, i) ==
    \E j \in (i + 1)..(i + 4) :
        j \in DOMAIN doc /\ doc[j].kind \in {"opt", "eq"}

\* the plain lines that have such a follower
starters(doc) == {i \in DOMAIN doc : plain_line(doc[i]) /\ followed(doc, i)}

\* the first option or ==== line after line i
first_follower(doc, i) ==
    SetMin({j \in DOMAIN doc : j > i /\ doc[j].kind \in {"opt", "eq"}})

\* C34: in a text without numbered question lines (a line of digits and a
\* dot alone is a plain line), the first plain line that has an
\* option line or a ==== line among the four lines after it starts the
\* question, whose text is the lines from there up to that option or ====
\* line; the plain lines after the next ==== line are its answers,
\* correct when marked; the plain lines before, which have no such
\* follower, are dropped, and without such a line there is no question.
C34_NarrativeQuestion ==
    (parsed_text /\ unnumbered(last.text)) =>
        LET doc == last.text
        IN IF starters(doc) = {} THEN last.tests = <<>>
           ELSE LET s == SetMin(starters(doc))
                    e == first_follower(doc, s)
                    q == last.tests[1].questions[1]
                IN /\ Len(last.tests) = 1
                   /\ q.question_number = 1
                   /\ q.question_text = [k \in 1..(e - s) |-> Text([pos |-> s + k - 1], "line")]
                   /\ \A a \in DOMAIN q.answers : q.answers[a].text.pos >= e
                   /\ \A j \in DOMAIN doc :
                         (/\ plain_line(doc[j])
                          /\ \E p \in (s + 1)..(j - 1) : doc[p].kind = "eq") =>
                            \E a \in DOMAIN q.answers :
                                /\ q.answers[a].text.pos = j
                                /\ q.answers[a].is_correct = doc[j].marked
                                /\ q.answers[a].text.part =
                                      IF doc[j].marked THEN "rest" ELSE "line"

\* a question of two lines was read, with a correct and a wrong answer
\* after the ==== line
C34_Witness ==
    /\ parsed_text
    /\ unnumbered(last.text)
    /\ last.tests # <<>>
    /\ Len(last.tests[1].questions[1].question_text) = 2
    /\ Len(last.tests[1].questions[1].answers) = 2
    /\ \E a \in {1, 2} : last.tests[1].questions[1].answers[a].is_correct
    /\ \E a \in {1, 2} : ~last.tests[1].questions[1].answers[a].is_correct
    /\ \A i \in DOMAIN last.text : last.text[i].kind # "opt"

\* C35: parse_text returns for every text, without raising, a list of
\* tests that have at least one question each.
C35_ParseNeverRaises ==
    last.kind \in {"parsed", "ValueError"} =>
        /\ last.kind = "parsed"
        /\ \A k \in DOMAIN last.tests : Len(last.tests[k].questions) >= 1

\* ------------------------------------------------- claims on sessions
\* the handler that ran last recorded an answer and, with it, finished
\* the attempt
finished_by_answer == last.kind = "finished" /\ last.upsert # ""

\* C36: when recording an answer finishes an attempt, every question of
\* its test has exactly one user_answers row of the attempt, and the
\* attempt's three counters add up to the number of questions.
C36_CompletedCoversAllQuestions ==
    finished_by_answer =>
        LET tr == last.shown_tr
            qs == {q \in questions : q.test_id = test_results[tr].test_id}
        IN /\ \A q \in qs :
                 Cardinality({a \in user_answers :
                                 a.test_result_id = tr /\ a.question_id = q.id}) = 1
           /\ test_results[tr].correct_answers + test_results[tr].wrong_answers
                 + test_results[tr].skipped_answers = Cardinality(qs)

\* ------------------------------------------- answering the displayed question
\* the question of the message sent last, when that message is a question
displayed_question ==
    all_questions(test_results[last.shown_tr].test_id)[last.shown_index + 1]

\* The owner of the attempt whose question was sent last presses one of the
\* buttons of that message: an answer of its keyboard, or skip (NULL).
answer_displayed(a, d) ==
    /\ last.kind = "question"
    /\ a \in {last.keyboard[i].answer_id : i \in DOMAIN last.keyboard} \cup {NULL}
    /\ button_answer(test_results[last.shown_tr].user_id, last.shown_tr,
                     displayed_question, a, d)

\* The same press, the handler stopped with the process after its commit.
answer_displayed_stopped(a) ==
    /\ last.kind = "question"
    /\ a \in {last.keyboard[i].answer_id : i \in DOMAIN last.keyboard} \cup {NULL}
    /\ answer_stopped(test_results, user_answers,
                      test_results[last.shown_tr].user_id, last.shown_tr,
                      displayed_question, a)

\* A user who follows the bot: tests are started from the menu, an attempt
\* is continued with its continue button, and the only answers sent are
\* those of the question displayed last.  The process may be restarted
\* between two updates or stopped inside a handler.
NextFollow ==
    \/ /\ update_count < MaxUpdates
       /\ update_count' = update_count + 1
       /\ UNCHANGED in_progress
       /\ \/ /\ UNCHANGED conversation
             /\ \/ \E u \in Users, t \in {1, 2} : button_test(u, t)
                \/ \E u \in Users, tr \in AttemptIds : \E d \in ElapsedOf(tr) :
                      button_continue_test(u, tr, d)
                \/ \E a \in {x.id : x \in answers} \cup {NULL} :
                      \E d \in ElapsedOf(last.shown_tr) : answer_displayed(a, d)
          \/ \E a \in {x.id : x \in answers} \cup {NULL} :
                answer_displayed_stopped(a)
          \/ \E u \in Users, t \in {1, 2}, stamp \in BOOLEAN :
                start_test_stopped(u, t, stamp)
          \/ \E u \in Users, tr \in AttemptIds : continue_test_stopped(u, tr)
    \/ /\ process_restart
       /\ UNCHANGED <<update_count, in_progress>>

SpecFollow == InitResume /\ [][NextFollow]_vars

\* the answer to the displayed question was recorded by the last update
recorded_displayed == last.upsert # ""

\* C37: when only the displayed question is ever answered or skipped, an
\* attempt is finished after exactly as many recorded answers as it had
\* questions without one: every recorded answer is that of a question that
\* had none before, and the attempt is finished by the very answer that
\* leaves no question without one.
C37_AnswersUntilCompleted ==
    recorded_displayed =>
        /\ last.upsert = "new"
        /\ last.kind = "finished"
              <=> all_recorded(test_results, user_answers, last.shown_tr)

\* ------------------------------------------------------------------------
\* the rows of test_access of user u and test t
grants(acc, u, t) == {i \in Ids(acc) : acc[i].user_id = u /\ acc[i].test_id = t}

\* the tests for which user u has a row in acc2 and had none in acc1
granted_by_step(acc1, acc2, u) ==
    {t \in TestIds : grants(acc1, u, t) = {} /\ grants(acc2, u, t) # {}}

\* C38: a user pays for a test at most once.  A step that lowers a balance
\* lowers it by the cost of exactly one test and inserts the access row of
\* that user and test, which did not exist; a step that inserts an access
\* row lowers the balance so; no step takes or changes an access row; no
\* pair of user and test has two access rows; no balance is negative.
C38_PaidOnce ==
    /\ [][/\ \A i \in Ids(test_access) :
                i \in Ids(test_access') /\ test_access'[i] = test_access[i]
          /\ \A u \in DOMAIN users' :
                LET new == granted_by_step(test_access, test_access', u) IN
                IF new = {}
                THEN balance_of(users', u) >= balance_of(users, u)
                ELSE \E t \in new :
                        /\ new = {t}
                        /\ Cardinality(grants(test_access', u, t)) = 1
                        /\ balance_of(users', u) = balance_of(users, u)
                               - calculate_test_cost(question_count(t))]_vars
    /\ [](/\ \A u \in Users, t \in TestIds :
                Cardinality(grants(test_access, u, t)) <= 1
          /\ \A u \in DOMAIN users : users[u] >= 0)

\* a user who paid for a test has started it a second time: two attempts,
\* one access row, and the balance short of the credit by one cost
C38_Witness ==
    \E i, j \in Ids(test_results) :
        /\ i < j
        /\ test_results[i].user_id = test_results[j].user_id
        /\ test_results[i].test_id = test_results[j].test_id
        /\ Cardinality(grants(test_access, test_results[i].user_id,
                              test_results[i].test_id)) = 1
        /\ Len(test_access) = 1
        /\ users[test_results[i].user_id]
              = payments[test_results[i].user_id].amount
                - calculate_test_cost(question_count(test_results[i].test_id))

\* ------------------------------------------------------------------------
\* the row x of user_answers names a question of the test of its attempt
question_of_attempt(x) ==
    \E q \in questions :
        q.id = x.question_id /\ q.test_id = test_results[x.test_result_id].test_id

\* the row x of user_answers names no answer, or an answer of its question
answer_of_question(x) ==
    x.answer_id # NULL =>
        \E a \in answers : a.id = x.answer_id /\ a.question_id = x.question_id

\* C39: every row of user_answers names a question of the test of its
\* attempt and, unless it is a skip, an answer of that question; an update
\* that names another question or another question's answer is refused and
\* writes nothing.
C39_RecordedAnswerWellFormed ==
    \A x \in user_answers : question_of_attempt(x) /\ answer_of_question(x)

\* ------------------------------------------------------------------------
\* The top-up flow picked up after a rejection: users 1 and 2 have their
\* rows, user 1 chose an amount (payment 1), sent the receipt, and admin 2
\* pressed reject_payment_1, which deleted the row.  The handler then
\* edits the message of the admin group that carried the buttons
\* verify_payment_1 and reject_payment_1; a press of one of them can still
\* arrive after that: one made by another admin of the group before the
\* edit, one made after an edit that failed, or the data sent by a client.
InitRejected ==
    /\ tests = InitTests
    /\ questions = InitQuestions
    /\ answers = InitAnswers
    /\ users = (1 :> 0) @@ (2 :> 0)
    /\ test_access = <<>>
    /\ test_results = <<>>
    /\ user_answers = {}
    /\ payments = <<>>
    /\ test_start = {}
    /\ test_current_question = <<>>
    /\ update_count = 0
    /\ in_progress = {}
    /\ conversation = [u \in Users |-> END]
    /\ live = {}
    /\ last = Last("rejected", NULL, NULL, NULL, "", "")

\* the ids of the payments rejected before
rejected_payments == {1}

\* the updates of Next, handled from there on
SpecRejected == InitRejected /\ [][Next]_vars

\* C40: a press of verify or reject changes a balance or a payment row only
\* when it is an admin's and on a payment that exists, is not verified and
\* was not rejected; a verify that changes a balance adds the payment's
\* amount to its user's balance and marks the payment verified, so that no
\* later press credits it again; a reject credits nothing.
C40_CreditedOnce ==
    [][\A u \in Users, p \in 1..(MaxPayments + 1), verify \in BOOLEAN :
          handle_verify_payment(u, p, verify) =>
             IF \/ u \notin ADMIN_IDS
                \/ p \notin DOMAIN payments
                \/ p \in rejected_payments
                \/ payments[p].is_verified
             THEN users' = users /\ payments' = payments
             ELSE IF verify
             THEN \/ users' = users
                  \/ /\ users' = [users EXCEPT ![payments[p].user_id] =
                                       @ + payments[p].amount]
                     /\ payments' = [payments EXCEPT ![p].is_verified = TRUE]
             ELSE users' = users]_vars

====
